---- MODULE Spec2Model ----
(***************************************************************************)
(* InvestSwarm: the two-level fan-out/fan-in orchestration of              *)
(* src/src/swarm.py and src/src/agents/*.py on an asyncio event loop.      *)
(*                                                                         *)
(* One analyze_stock run: three agent pipelines are gathered concurrently, *)
(* each pipeline gathers its run_subtask calls (every one a responder call *)
(* under asyncio.wait_for), issues one reduce call and returns; the judge  *)
(* is then called on the three results.  The responder (DedalusRunner.run) *)
(* is external: each call of it may reply with parsable text, reply with   *)
(* unparsable text, raise an error, be cancelled (CancelledError, which is *)
(* a BaseException and not an Exception), or never reply.                  *)
(*                                                                         *)
(* An action is one step of a coroutine between two awaits.                *)
(***************************************************************************)
EXTENDS Integers, Sequences, FiniteSets, TLC

\* ------------------------------------------------------------------ bounds
\* Descriptors modelled per pipeline when one agent's analyze is called on
\* its own: the first MaxSubtasks of its list.
MaxSubtasks == 3
\* Descriptors modelled per pipeline when analyze_stock runs the three
\* agents together: the first SwarmSubtasks of each list.
SwarmSubtasks == 1
\* Sub-task responder calls that end in an error other than a timeout
\* (raise, unparsable reply, cancellation): at most MaxFaults when one
\* agent's analyze is called on its own, one fewer in an analyze_stock run.
MaxFaults == 1

\* ----------------------------------------------------------- program data
AgentOrder == <<"financial", "market", "sentiment">>
Agents == {"financial", "market", "sentiment"}

AgentIndex(p) == CHOOSE k \in 1..3 : AgentOrder[k] = p

AgentName ==
  [financial |-> "Financial Analysis Agent",
   market    |-> "Market & Product Analysis Agent",
   sentiment |-> "Sentiment Analysis Agent"]

\* f"{agent_names[i].title()} Agent"
TitleAgent ==
  [financial |-> "Financial Agent",
   market    |-> "Market Agent",
   sentiment |-> "Sentiment Agent"]

\* str.upper() of the agent names, as used in the judge's section headings
Upper(s) ==
  CASE s = "Financial Analysis Agent"        -> "FINANCIAL ANALYSIS AGENT"
    [] s = "Market & Product Analysis Agent" -> "MARKET & PRODUCT ANALYSIS AGENT"
    [] s = "Sentiment Analysis Agent"        -> "SENTIMENT ANALYSIS AGENT"
    [] s = "Financial Agent"                 -> "FINANCIAL AGENT"
    [] s = "Market Agent"                    -> "MARKET AGENT"
    [] s = "Sentiment Agent"                 -> "SENTIMENT AGENT"
    [] OTHER                                 -> s

AllSubtasks ==
  [financial |-> <<"financial_health", "profitability", "valuation",
                   "cash_flow", "balance_sheet">>,
   market    |-> <<"market_size", "competition", "product", "moat",
                   "growth_ops", "risks">>,
   sentiment |-> <<"news_30d", "analyst", "social_retail", "insiders",
                   "derivatives", "catalysts">>]

Min(a, b) == IF a < b THEN a ELSE b

\* Longest text among the texts of every length given to the Extractor.
MaxLen == 3
\* Longest string value in the JSON objects given to the Extractor.
MaxValueLen == 2
\* Longest text among the texts made of backticks, a letter and white space.
MaxFenceLen == 7

\* if not ticker.isalnum() or len(ticker) > 5
MaxTickerLen == 5

Letters == {"T", "S", "L", "A", "G", "O", "E"}
LowerOf == [T |-> "t", S |-> "s", L |-> "l", A |-> "a", G |-> "g", O |-> "o",
            E |-> "e"]
AlnumChars == Letters \cup {LowerOf[c] : c \in Letters} \cup {"1"}

\* str.upper(), character by character
upper(ticker) ==
  [k \in 1..Len(ticker) |->
     IF \E c \in Letters : LowerOf[c] = ticker[k]
       THEN CHOOSE c \in Letters : LowerOf[c] = ticker[k]
       ELSE ticker[k]]

\* str.isalnum(): every character is alphanumeric and there is at least one
isalnum(ticker) ==
  /\ Len(ticker) > 0
  /\ \A k \in 1..Len(ticker) : ticker[k] \in AlnumChars

\* main's check of the ticker argument
ticker_accepted(ticker) == ~(~isalnum(ticker) \/ Len(ticker) > MaxTickerLen)

\* Ticker arguments given on the command line.
Tickers ==
  {<<"t", "s", "l", "a">>, <<"T", "S", "L", "A", "!">>, <<>>,
   <<"G", "O", "O", "G", "L", "E">>}

\* Ticker arguments given to analyze_stock by a library caller.
LibraryTickers == {<<"t", "s", "l", "a">>, <<"T", "S", "L", "A", "!">>}

\* ------------------------------------------------------------------- state
VARIABLES
  pcSwarm,        \* analyze_stock: "idle", "research", "judge", "done", "raised";
                  \*   "unused" when an agent's analyze is called on its own
  task,           \* per agent, its analyze coroutine: "idle", "scheduled",
                  \*   "map", "reduce", "finished"
  sub,            \* per agent, the run_subtask tasks in descriptor order
  gatherFut,      \* per agent, the outer future of its asyncio.gather
  micro_results,  \* per agent, the local micro_results (<<>> until assigned)
  reduceCall,     \* per agent, its reduce responder call and the list in its prompt
  reduceCalls,    \* per agent, how many reduce calls were issued
  pipeResult,     \* per agent, how its analyze task ended
  swarmFut,       \* the outer future of analyze_stock's gather
  final_results,  \* the local final_results of analyze_stock
  judgeCall,      \* the judge's responder call and the context in its prompt
  judgeCalls,     \* how many times JudgeAgent.judge was called
  verdict_result, \* the local verdict_result of analyze_stock
  runResult,      \* what analyze_stock returned
  outOfOrder,     \* history: per fan-out, did a later child finish before an
                  \*   earlier one
  faults,         \* history: sub-task calls of the run that ended in an error
                  \*   other than a timeout
  responderCalls, \* history: per agent and descriptor, how many times
                  \*   runner.run was called for it
  stock_ticker,   \* the local stock_ticker of analyze_stock (<<>> until it
                  \*   is called)
  pcMain,         \* main of the command line: "idle" (not started),
                  \*   "awaiting" (in analyze_stock), "exited",
                  \*   "interrupted" (ended by the user's interrupt)
  exitCode,       \* the exit code of the process (-1 while it runs)
  reply,          \* a text handed to the Extractor on its own, with how it
                  \*   was composed (NoValue when none is)
  normalized,     \* what _normalize_quotes returned for it
  stripped,       \* what _strip_code_fences returned for it
  parsed,         \* how parse_model_json ended for it
  runs            \* two analyze_stock calls on one InvestSwarm object: per
                  \*   call its position, locals, responder calls and result

\* The descriptor list of agent p, cut to the modelled width.
subtasks(p) ==
  LET width == IF pcSwarm = "unused" THEN MaxSubtasks ELSE SwarmSubtasks
  IN SubSeq(AllSubtasks[p], 1, Min(width, Len(AllSubtasks[p])))

N(p) == Len(subtasks(p))

\* How many sub-task calls of the run may still end in an error other than
\* a timeout.
FaultBudget == IF pcSwarm = "unused" THEN MaxFaults ELSE MaxFaults - 1

\* ------------------------------------------------------------- exceptions
TimeoutError   == [type |-> "TimeoutError",   msg |-> ""]
ResponderError == [type |-> "ResponderError", msg |-> "responder failed"]
ValueError     == [type |-> "ValueError",     msg |-> "Failed to parse model JSON"]
ClientError    == [type |-> "ClientError",    msg |-> "client could not be constructed"]
TypeError      == [type |-> "TypeError",      msg |-> "object is not subscriptable"]
CancelledError == [type |-> "CancelledError", msg |-> ""]

\* isinstance(e, Exception): CancelledError derives from BaseException only
IsException(e) == e.type # "CancelledError"

\* ------------------------------------------------- responder and Extractor
\* The text a responder writes in answer to a sub-task prompt.
MicroReply(p, name, parsable) ==
  [parsable |-> parsable,
   json |-> [summary |-> <<"analysis", name>>, metrics |-> <<>>,
             strengths |-> <<>>, weaknesses |-> <<>>,
             stance |-> "NEUTRAL", confidence |-> 7]]

\* The text a responder writes in answer to a reduce prompt.
ReduceReply(p, input, parsable) ==
  [parsable |-> parsable,
   json |-> [overall_summary |-> <<"synthesis", p, Len(input)>>,
             overall_stance |-> "NEUTRAL", confidence |-> 5]]

JudgeReply == [parsable |-> FALSE, prose |-> "verdict"]

\* parse_model_json on a reply: the parsed mapping, or ValueError
parse_model_json(text) ==
  IF text.parsable THEN [ok |-> TRUE, value |-> text.json]
                   ELSE [ok |-> FALSE, exc |-> ValueError]


\* ------------------------------------------------------ Bounded Task Runner
\* The record run_subtask returns from its except branch.  FinancialAgent
\* builds a two-key record, MarketAgent and SentimentAgent a six-key one.
FailurePlaceholder(p, name, e) ==
  IF p = "financial"
    THEN [summary |-> <<name, "failed", e.msg>>, confidence |-> 0]
    ELSE [summary |-> <<name, "failed", e.msg>>, metrics |-> <<>>,
          strengths |-> <<>>, weaknesses |-> <<>>,
          stance |-> "NEUTRAL", confidence |-> 0]

Inflight == [st |-> "inflight"]
Returned(how, rec) == [st |-> "done", how |-> how, result |-> rec]
Cancelled == [st |-> "cancelled"]

\* run_subtask with one more attempt after a deadline: the task awaits
\* runner.run again instead of returning the placeholder.
run_subtask_retrying(p, name, ev) ==
  CASE ev.kind = "reply" ->
         LET r == parse_model_json(ev.text) IN
           IF r.ok THEN Returned("parsed", r.value)
                   ELSE Returned("unparsable", FailurePlaceholder(p, name, r.exc))
    [] ev.kind = "timeout" -> Inflight
    [] ev.kind = "raise" ->
         IF IsException(ev.exc)
           THEN Returned("raise", FailurePlaceholder(p, name, ev.exc))
           ELSE Cancelled

\* run_subtask stamping the descriptor's name on the record it got from
\* parse_model_json.
run_subtask_stamping(p, name, ev) ==
  CASE ev.kind = "reply" ->
         LET r == parse_model_json(ev.text) IN
           IF r.ok THEN Returned("parsed", [subtask |-> name] @@ r.value)
                   ELSE Returned("unparsable", FailurePlaceholder(p, name, r.exc))
    [] ev.kind = "timeout" ->
         Returned("timeout", FailurePlaceholder(p, name, TimeoutError))
    [] ev.kind = "raise" ->
         IF IsException(ev.exc)
           THEN Returned("raise", FailurePlaceholder(p, name, ev.exc))
           ELSE Cancelled

\* What the run_subtask task of descriptor `name` ends as, given how its
\* awaited wait_for(runner.run(...)) ended:
\*   [kind |-> "reply", text |-> t]   runner.run returned t in time
\*   [kind |-> "timeout"]             wait_for raised TimeoutError
\*   [kind |-> "raise", exc |-> e]    runner.run raised e
\* `except Exception` catches e only if it is an Exception; a CancelledError
\* leaves run_subtask and ends the task as cancelled.
run_subtask(p, name, ev) ==
  CASE ev.kind = "reply" ->
         LET r == parse_model_json(ev.text) IN
           IF r.ok THEN Returned("parsed", r.value)
                   ELSE Returned("unparsable", FailurePlaceholder(p, name, r.exc))
    [] ev.kind = "timeout" ->
         Returned("timeout", FailurePlaceholder(p, name, TimeoutError))
    [] ev.kind = "raise" ->
         IF IsException(ev.exc)
           THEN Returned("raise", FailurePlaceholder(p, name, ev.exc))
           ELSE Cancelled

\* wait_for_timeout as a task group would do it: the deadline of child i
\* also cancels every sibling still in flight.
wait_for_timeout_cancelling_siblings(children, p, i) ==
  [k \in DOMAIN children |->
     IF k = i THEN run_subtask(p, subtasks(p)[i], [kind |-> "timeout"])
     ELSE IF children[k].st = "inflight" THEN Cancelled
     ELSE children[k]]

\* asyncio.wait_for reaching its deadline for child i: the call of that one
\* child is cancelled and its run_subtask gets TimeoutError; no other child
\* is touched.
wait_for_timeout(children, p, i) ==
  [children EXCEPT ![i] = run_subtask(p, subtasks(p)[i], [kind |-> "timeout"])]

\* ------------------------------------------------------------------ gather
\* gather keeping only the children whose reply was parsed.
GotParsed(c) == c.how = "parsed"

gather_successes(children, last) ==
  LET ok == SelectSeq(children, GotParsed)
  IN [k \in 1..Len(ok) |-> ok[k].result]

\* gather appending on completion, as far as the child that finished last
\* goes: its result comes last.
gather_as_completed(children, last) ==
  LET n == Len(children)
      at(k) == IF k < last THEN k ELSE IF k < n THEN k + 1 ELSE last
  IN [k \in 1..n |-> children[at(k)].result]

\* asyncio.gather(*aws) of a pipeline: the results in the order of aws,
\* whichever child finished last.
gather(children, last) ==
  [k \in 1..Len(children) |-> children[k].result]

Pending == [st |-> "pending"]

\* gather's done-callback for child i (return_exceptions=False): the first
\* child that ends cancelled or raising settles the outer future with that
\* exception at once; otherwise the outer future gets the result list when
\* the last child is done.
gather_done_callback(fut, children, i) ==
  IF fut.st # "pending" THEN fut
  ELSE IF children[i].st = "cancelled"
    THEN [st |-> "exception", exc |-> CancelledError]
  ELSE IF \A k \in 1..Len(children) : children[k].st = "done"
    THEN [st |-> "result", results |-> gather(children, i)]
  ELSE fut

\* gather_return_exceptions appending on completion, as far as the pipeline
\* that finished last goes.
gather_return_exceptions_as_completed(children, last) ==
  LET l == CHOOSE k \in 1..3 : AgentOrder[k] = last
      at(k) == IF k < l THEN k ELSE IF k < 3 THEN k + 1 ELSE l
      entry(c) == IF c.st = "returned" THEN c.result ELSE c.exc
  IN [k \in 1..3 |-> entry(children[AgentOrder[at(k)]])]

\* asyncio.gather(..., return_exceptions=True) of the three pipelines: one
\* entry per pipeline in the order financial, market, sentiment; a pipeline
\* that raised or was cancelled contributes its exception object.
gather_return_exceptions(children, last) ==
  [k \in 1..3 |->
     LET c == children[AgentOrder[k]] IN
       IF c.st = "returned" THEN c.result ELSE c.exc]

\* ---------------------------------------------------------------- pipeline
\* analyze_reduce with an except branch that keeps only the error text.
analyze_reduce_discarding(p, micro, ev) ==
  LET envelope(e) ==
        [st |-> "returned",
         result |-> [agent |-> p, agent_name |-> AgentName[p],
                     analysis |-> [error |-> e.msg, partials |-> <<>>],
                     status |-> "partial"]]
  IN CASE ev.kind = "reply" ->
            LET r == parse_model_json(ev.text) IN
              IF r.ok
                THEN [st |-> "returned",
                      result |-> [agent |-> p, agent_name |-> AgentName[p],
                                  analysis |-> r.value, status |-> "success"]]
                ELSE envelope(r.exc)
       [] ev.kind = "raise" ->
            IF IsException(ev.exc) THEN envelope(ev.exc)
                                   ELSE [st |-> "raised", exc |-> ev.exc]

\* analyze_reduce with status = "success" set before the try block and
\* never changed.
analyze_reduce_always_success(p, micro, ev) ==
  LET envelope(e) ==
        [st |-> "returned",
         result |-> [agent |-> p, agent_name |-> AgentName[p],
                     analysis |-> [error |-> e.msg, partials |-> micro],
                     status |-> "success"]]
  IN CASE ev.kind = "reply" ->
            LET r == parse_model_json(ev.text) IN
              IF r.ok
                THEN [st |-> "returned",
                      result |-> [agent |-> p, agent_name |-> AgentName[p],
                                  analysis |-> r.value, status |-> "success"]]
                ELSE envelope(r.exc)
       [] ev.kind = "raise" ->
            IF IsException(ev.exc) THEN envelope(ev.exc)
                                   ELSE [st |-> "raised", exc |-> ev.exc]

\* The tail of <Agent>.analyze, from the end of the awaited reduce call to
\* the return (or to the exception leaving analyze).
\*   ev as for run_subtask, without "timeout": the reduce call has no deadline
analyze_reduce(p, micro, ev) ==
  LET envelope(e) ==
        [st |-> "returned",
         result |-> [agent |-> p, agent_name |-> AgentName[p],
                     analysis |-> [error |-> e.msg, partials |-> micro],
                     status |-> "partial"]]
  IN CASE ev.kind = "reply" ->
            LET r == parse_model_json(ev.text) IN
              IF r.ok
                THEN [st |-> "returned",
                      result |-> [agent |-> p, agent_name |-> AgentName[p],
                                  analysis |-> r.value, status |-> "success"]]
                ELSE envelope(r.exc)
       [] ev.kind = "raise" ->
            IF IsException(ev.exc) THEN envelope(ev.exc)
                                   ELSE [st |-> "raised", exc |-> ev.exc]

\* ------------------------------------------------------------ orchestrator
\* A Python str value built by an f-string.
Str(prefix, msg) == [str |-> <<prefix, msg>>]

IsExceptionObject(r) == "type" \in DOMAIN r

\* handle_exceptions naming every failed dimension agent_names[0].
handle_exceptions_misnamed(research_results) ==
  [i \in 1..Len(research_results) |->
     LET result == research_results[i] IN
       IF IsExceptionObject(result) /\ IsException(result)
         THEN [agent |-> AgentOrder[1],
               agent_name |-> TitleAgent[AgentOrder[1]],
               analysis |-> Str("Error: ", result.msg),
               status |-> "error"]
         ELSE result]

\* The loop of analyze_stock over research_results: an entry that is an
\* instance of Exception becomes an error entry under agent_names[i]; any
\* other entry is appended as is.
handle_exceptions(research_results) ==
  [i \in 1..Len(research_results) |->
     LET result == research_results[i] IN
       IF IsExceptionObject(result) /\ IsException(result)
         THEN [agent |-> AgentOrder[i],
               agent_name |-> TitleAgent[AgentOrder[i]],
               analysis |-> Str("Error: ", result.msg),
               status |-> "error"]
         ELSE result]

\* The judge's context with every entry that is not an error presented as
\* a normal finding.
context_part_partial_as_finding(result) ==
  IF result.status \in {"success", "partial"}
    THEN [heading |-> <<Upper(result.agent_name), "">>,
          body |-> result.analysis]
    ELSE [heading |-> <<Upper(result.agent_name), " - ERROR">>,
          body |-> result.analysis]

\* One section of the judge's context.
context_part(result) ==
  IF result.status = "success"
    THEN [heading |-> <<Upper(result.agent_name), "">>,
          body |-> result.analysis]
    ELSE [heading |-> <<Upper(result.agent_name), " - ERROR">>,
          body |-> result.analysis]

\* JudgeAgent.judge up to its awaited responder call: the client is built,
\* then the context is compiled; result["status"] on an entry that is no
\* mapping raises TypeError.
judge_prepare(research, clientOk) ==
  IF ~clientOk THEN [ok |-> FALSE, exc |-> ClientError]
  ELSE IF \E i \in 1..Len(research) : IsExceptionObject(research[i])
    THEN [ok |-> FALSE, exc |-> TypeError]
  ELSE [ok |-> TRUE,
        context |-> [i \in 1..Len(research) |-> context_part(research[i])]]

\* JudgeAgent.judge from the end of its awaited responder call.
judge_finish(ev) ==
  CASE ev.kind = "reply" ->
         [st |-> "returned",
          result |-> [agent |-> "judge", agent_name |-> "Judge & Verdict Agent",
                      verdict |-> ev.text, status |-> "success"]]
    [] ev.kind = "raise" ->
         IF IsException(ev.exc)
           THEN [st |-> "returned",
                 result |-> [agent |-> "judge",
                             agent_name |-> "Judge & Verdict Agent",
                             verdict |-> Str("Error during judgment: ", ev.exc.msg),
                             status |-> "error"]]
           ELSE [st |-> "raised", exc |-> ev.exc]

\* _run_judge awaited without the try/except around it.
run_judge_unguarded(outcome) == outcome

\* The try/except around _run_judge in analyze_stock.
run_judge_guarded(outcome) ==
  IF outcome.st = "returned" THEN outcome
  ELSE IF IsException(outcome.exc)
    THEN [st |-> "returned",
          result |-> [agent |-> "judge",
                      verdict |-> Str("Error: ", outcome.exc.msg),
                      status |-> "error"]]
  ELSE outcome

\* The value analyze_stock returns.
compile_output(ticker, final, verdict) ==
  [status |-> "success",
   stock_ticker |-> ticker,
   timestamp |-> "start_time",
   duration_seconds |-> "duration",
   research |-> [financial |-> final[1], market |-> final[2],
                 sentiment |-> final[3]],
   verdict |-> verdict]


vars == <<pcSwarm, task, sub, gatherFut, micro_results, reduceCall, reduceCalls,
          pipeResult, swarmFut, final_results, judgeCall, judgeCalls,
          verdict_result, runResult, outOfOrder, faults, responderCalls,
          stock_ticker, pcMain, exitCode,
                 reply, normalized, stripped, parsed, runs>>

NoValue == [none |-> TRUE]
NoCall == [st |-> "none"]

ReplyEv(t) == [kind |-> "reply", text |-> t]
RaiseEv(e) == [kind |-> "raise", exc |-> e]
TimeoutEv == [kind |-> "timeout"]

\* The two calls of analyze_stock made on the one object.
Runs == {1, 2}

\* The locals of analyze kept as attributes of the agent object, which the
\* two calls share.
frame_of_agent_object(r, p) == <<1, p>>

\* Where the locals of the analyze call of agent p in call r live: a
\* coroutine frame of its own.
frame_of(r, p) == <<r, p>>

\* Nothing was called yet.
RunsIdle ==
  [pc |-> [r \in Runs |-> "idle"],
   stock_ticker |-> [r \in Runs |-> <<>>],
   frame |-> [k \in Runs \X Agents |-> [stock_ticker |-> <<>>, micro_results |-> <<>>]],
   sub |-> [k \in Runs \X Agents |-> <<>>],
   reduce |-> [k \in Runs \X Agents |-> NoCall],
   pipeline |-> [k \in Runs \X Agents |-> NoValue],
   final_results |-> [r \in Runs |-> <<>>],
   judge |-> [r \in Runs |-> NoCall],
   result |-> [r \in Runs |-> NoValue],
   faults |-> 0]

\* The state after InvestSwarm() was constructed: nothing is running.
Constructed ==
  /\ pcSwarm = "idle"
  /\ task = [p \in Agents |-> "idle"]
  /\ sub = [p \in Agents |-> <<>>]
  /\ gatherFut = [p \in Agents |-> Pending]
  /\ micro_results = [p \in Agents |-> <<>>]
  /\ reduceCall = [p \in Agents |-> NoCall]
  /\ reduceCalls = [p \in Agents |-> 0]
  /\ pipeResult = [p \in Agents |-> Pending]
  /\ swarmFut = Pending
  /\ final_results = <<>>
  /\ judgeCall = NoCall
  /\ judgeCalls = 0
  /\ verdict_result = NoValue
  /\ runResult = NoValue
  /\ outOfOrder = [f \in Agents \cup {"swarm"} |-> FALSE]
  /\ faults = 0
  /\ responderCalls = [p \in Agents |-> <<>>]
  /\ stock_ticker = <<>>
  /\ pcMain = "idle"
  /\ exitCode = -1
  /\ runs = RunsIdle

Init ==
  /\ Constructed
  /\ reply = NoValue
  /\ normalized = NoValue
  /\ stripped = NoValue
  /\ parsed = NoValue

\* ----------------------------------------------------------------- actions
\* analyze_stock up to its awaited gather: the ticker is upper-cased (and
\* not examined) and the three _run_*_analysis coroutines become tasks.
analyze_stock_called(ticker) ==
  /\ pcSwarm = "idle"
  /\ pcSwarm' = "research"
  /\ stock_ticker' = upper(ticker)
  /\ task' = [p \in Agents |-> "scheduled"]
  /\ UNCHANGED <<sub, gatherFut, micro_results, reduceCall, reduceCalls,
                 pipeResult, swarmFut, final_results, judgeCall, judgeCalls,
                 verdict_result, runResult, outOfOrder, faults, responderCalls,
                 reply, normalized, stripped, parsed, runs>>

\* A library caller awaits analyze_stock(ticker).
AnalyzeStock(ticker) ==
  /\ pcMain = "idle"
  /\ analyze_stock_called(ticker)
  /\ UNCHANGED <<pcMain, exitCode>>

\* main of the command line up to its
\* awaited analyze_stock: a ticker that fails the check ends the process
\* with exit code 1 before anything is called.
Main(ticker) ==
  /\ pcMain = "idle"
  /\ pcSwarm = "idle"
  /\ IF ticker_accepted(upper(ticker))
       THEN /\ pcMain' = "awaiting"
            /\ analyze_stock_called(upper(ticker))
            /\ UNCHANGED exitCode
       ELSE /\ pcMain' = "exited"
            /\ exitCode' = 1
            /\ UNCHANGED <<pcSwarm, task, sub, gatherFut, micro_results,
                           reduceCall, reduceCalls, pipeResult, swarmFut,
                           final_results, judgeCall, judgeCalls, verdict_result,
                           runResult, outOfOrder, faults, responderCalls,
                           stock_ticker, reply, normalized, stripped, parsed, runs>>

AttributeError == [type |-> "AttributeError", msg |-> "object has no attribute 'get'"]

\* print_research_summary: agent_result.get(...) on each of the three
\* entries in turn; an entry that is no mapping has no get.
print_research_summary(research_data) ==
  IF \E p \in Agents : IsExceptionObject(research_data[p])
    THEN [ok |-> FALSE, exc |-> AttributeError]
    ELSE [ok |-> TRUE]

\* The body of main's try block once analyze_stock has returned `results`,
\* as the exit code of the process: an Exception raised on the way is
\* caught by main and makes it 1.
\*   show_research: args.show_research and not args.quiet
main_try(results, show_research) ==
  IF show_research /\ ~print_research_summary(results.research).ok THEN 1
  ELSE IF results.status = "success" THEN 0
  ELSE 1

\* main resumes from analyze_stock (no --output): the research summary is
\* printed if asked for, the verdict is printed and the process exits with
\* 0 if the result's status is "success" and with 1 otherwise; an exception
\* that left analyze_stock ends the process with 1.
MainEnds(show_research) ==
  /\ pcMain = "awaiting"
  /\ pcSwarm \in {"done", "raised"}
  /\ pcMain' = "exited"
  /\ exitCode' = IF pcSwarm = "done" THEN main_try(runResult, show_research)
                                     ELSE 1
  /\ UNCHANGED <<pcSwarm, task, sub, gatherFut, micro_results, reduceCall,
                 reduceCalls, pipeResult, swarmFut, final_results, judgeCall,
                 judgeCalls, verdict_result, runResult, outOfOrder, faults,
                 responderCalls, stock_ticker, reply, normalized, stripped, parsed, runs>>

\* A finished run_subtask task nobody refers to any more.
Released == [st |-> "released"]

\* A caller outside analyze_stock awaits <Agent>.analyze of one agent.
AnalyzeAlone(p) ==
  /\ pcMain = "idle"
  /\ pcSwarm = "idle"
  /\ pcSwarm' = "unused"
  /\ task' = [task EXCEPT ![p] = "scheduled"]
  /\ UNCHANGED <<sub, gatherFut, micro_results, reduceCall, reduceCalls,
                 pipeResult, swarmFut, final_results, judgeCall, judgeCalls,
                 verdict_result, runResult, outOfOrder, faults, responderCalls,
                 stock_ticker, pcMain, exitCode,
                 reply, normalized, stripped, parsed, runs>>

\* The analyze task of agent p ends with `outcome`.  Its frame is released:
\* the finished run_subtask tasks, the gather future and micro_results are
\* gone (run_subtask tasks still in flight stay on the event loop); what
\* remains is the task's outcome, for which the done-callback of
\* analyze_stock's gather runs (if analyze_stock is the caller).
Finish(p, outcome) ==
  LET res == [pipeResult EXCEPT ![p] = outcome] IN
    /\ pipeResult' = res
    /\ task' = [task EXCEPT ![p] = "finished"]
    /\ sub' = [sub EXCEPT ![p] =
                 [i \in DOMAIN sub[p] |-> IF sub[p][i].st = "inflight"
                                             THEN sub[p][i] ELSE Released]]
    /\ gatherFut' = [gatherFut EXCEPT ![p] = Pending]
    /\ micro_results' = [micro_results EXCEPT ![p] = <<>>]
    /\ swarmFut' =
         IF pcSwarm = "research" /\ \A q \in Agents : res[q].st # "pending"
           THEN [st |-> "result", results |-> gather_return_exceptions(res, p)]
           ELSE swarmFut
    /\ outOfOrder' =
         [outOfOrder EXCEPT
            ![p] = FALSE,
            !["swarm"] =
               @ \/ (pcSwarm = "research"
                     /\ \E k \in 1..(AgentIndex(p) - 1) :
                          pipeResult[AgentOrder[k]].st = "pending")]

\* The map phase launched one descriptor at a time: only the first
\* run_subtask is started, the others wait for their predecessor.
launch_map_phase_sequential(p) ==
  [i \in 1..N(p) |-> IF i = 1 THEN Inflight ELSE [st |-> "waiting"]]

\* asyncio.gather(*(run_subtask(s) for s in subtasks)): every run_subtask
\* becomes a task and runs up to its awaited wait_for.
launch_map_phase(p) == [i \in 1..N(p) |-> Inflight]

\* <Agent>.analyze up to its awaited gather: the client and runner are
\* built (outside any try), then every run_subtask is started and runs up
\* to its awaited wait_for, so all N responder calls are in flight.
AgentAnalyze(p, clientOk) ==
  /\ task[p] = "scheduled"
  /\ IF clientOk
       THEN /\ task' = [task EXCEPT ![p] = "map"]
            /\ sub' = [sub EXCEPT ![p] = launch_map_phase(p)]
            /\ responderCalls' =
                 [responderCalls EXCEPT ![p] =
                    [i \in 1..N(p) |->
                       IF launch_map_phase(p)[i].st = "inflight" THEN 1 ELSE 0]]
            /\ UNCHANGED <<pipeResult, swarmFut, outOfOrder, gatherFut,
                           micro_results>>
       ELSE /\ Finish(p, [st |-> "raised", exc |-> ClientError])
            /\ UNCHANGED responderCalls
  /\ UNCHANGED <<pcSwarm, reduceCall, reduceCalls, final_results, judgeCall,
                 judgeCalls, verdict_result, runResult, faults,
                 stock_ticker, pcMain, exitCode,
                 reply, normalized, stripped, parsed, runs>>

\* The run_subtask task i of agent p ends, its sub array becoming
\* `children`; gather's done-callback runs for it.  A call is counted for
\* descriptor i if the task is awaiting runner.run again after the step.  If analyze has already
\* ended (its gather raised), nothing refers to the task and its outcome
\* is dropped.
SubtaskEnds(p, i, children, fault) ==
  /\ faults' = faults + fault
  /\ responderCalls' =
       [responderCalls EXCEPT ![p][i] =
          IF children[i].st = "inflight" THEN @ + 1 ELSE @]
  /\ IF task[p] = "finished"
       THEN /\ sub' = [sub EXCEPT ![p][i] = Released]
            /\ UNCHANGED <<gatherFut, outOfOrder>>
       ELSE /\ sub' = [sub EXCEPT ![p] = children]
            /\ gatherFut' =
                 [gatherFut EXCEPT ![p] = gather_done_callback(@, children, i)]
            /\ outOfOrder' =
                 [outOfOrder EXCEPT ![p] =
                    @ \/ (gatherFut[p].st = "pending"
                          /\ \E j \in 1..(i - 1) : sub[p][j].st = "inflight")]
  /\ UNCHANGED <<pcSwarm, task, micro_results, reduceCall, reduceCalls,
                 pipeResult, swarmFut, final_results, judgeCall, judgeCalls,
                 verdict_result, runResult, stock_ticker, pcMain, exitCode,
                 reply, normalized, stripped, parsed, runs>>

\* The responder answers sub-task i of agent p in time.
ResponderReplies(p, i, parsable) ==
  /\ i \in DOMAIN sub[p]
  /\ sub[p][i].st = "inflight"
  /\ parsable \/ faults < FaultBudget
  /\ SubtaskEnds(p, i,
       [sub[p] EXCEPT ![i] =
          run_subtask(p, subtasks(p)[i],
                      ReplyEv(MicroReply(p, subtasks(p)[i], parsable)))],
       IF parsable THEN 0 ELSE 1)

\* The responder call of sub-task i of agent p raises an error.
ResponderRaises(p, i) ==
  /\ i \in DOMAIN sub[p]
  /\ sub[p][i].st = "inflight"
  /\ faults < FaultBudget
  /\ SubtaskEnds(p, i,
       [sub[p] EXCEPT ![i] =
          run_subtask(p, subtasks(p)[i], RaiseEv(ResponderError))], 1)

\* The responder call of sub-task i of agent p is cancelled.
ResponderCancelled(p, i) ==
  /\ i \in DOMAIN sub[p]
  /\ sub[p][i].st = "inflight"
  /\ faults < FaultBudget
  /\ SubtaskEnds(p, i,
       [sub[p] EXCEPT ![i] =
          run_subtask(p, subtasks(p)[i], RaiseEv(CancelledError))], 1)

\* wait_for(..., timeout=None): no deadline ever passes.
SubtaskNoDeadline(p, i) ==
  /\ FALSE
  /\ UNCHANGED vars

\* The deadline of sub-task i of agent p passes with its call in flight.
SubtaskTimeout(p, i) ==
  /\ i \in DOMAIN sub[p]
  /\ sub[p][i].st = "inflight"
  /\ SubtaskEnds(p, i, wait_for_timeout(sub[p], p, i), 0)

\* <Agent>.analyze resumes from its gather: the exception of the gather
\* leaves analyze, or micro_results is assigned, serialized into the reduce
\* prompt and the reduce call is issued (without a deadline).
MapPhaseDone(p) ==
  /\ task[p] = "map"
  /\ gatherFut[p].st # "pending"
  /\ IF gatherFut[p].st = "exception"
       THEN /\ Finish(p, [st |-> "raised", exc |-> gatherFut[p].exc])
            /\ UNCHANGED <<reduceCall, reduceCalls>>
       ELSE /\ micro_results' = [micro_results EXCEPT ![p] = gatherFut[p].results]
            /\ reduceCall' = [reduceCall EXCEPT ![p] =
                 [st |-> "inflight", input |-> gatherFut[p].results]]
            /\ reduceCalls' = [reduceCalls EXCEPT ![p] = @ + 1]
            /\ task' = [task EXCEPT ![p] = "reduce"]
            /\ UNCHANGED <<pipeResult, swarmFut, outOfOrder, sub, gatherFut>>
  /\ UNCHANGED <<pcSwarm, final_results, judgeCall, judgeCalls,
                 verdict_result, runResult, faults, responderCalls,
                 stock_ticker, pcMain, exitCode,
                 reply, normalized, stripped, parsed, runs>>

\* The reduce call of agent p ends as `ev`; analyze runs to its end.
ReduceEnds(p, st, ev) ==
  /\ task[p] = "reduce"
  /\ reduceCall[p].st = "inflight"
  /\ reduceCall' = [reduceCall EXCEPT ![p] = [st |-> st]]
  /\ Finish(p, analyze_reduce(p, micro_results[p], ev))
  /\ UNCHANGED <<pcSwarm, reduceCalls, final_results, judgeCall, judgeCalls,
                 verdict_result, runResult, faults, responderCalls,
                 stock_ticker, pcMain, exitCode,
                 reply, normalized, stripped, parsed, runs>>

ReduceReplies(p, parsable) ==
  ReduceEnds(p, IF parsable THEN "replied" ELSE "unparsable",
             ReplyEv(ReduceReply(p, micro_results[p], parsable)))

ReduceRaises(p) == ReduceEnds(p, "raised", RaiseEv(ResponderError))

ReduceCancelled(p) == ReduceEnds(p, "cancelled", RaiseEv(CancelledError))

\* analyze_stock ends with the outcome of the guarded judge call.
Return(final, outcome) ==
  IF outcome.st = "returned"
    THEN /\ verdict_result' = outcome.result
         /\ runResult' = compile_output(stock_ticker, final, outcome.result)
         /\ pcSwarm' = "done"
    ELSE /\ UNCHANGED <<verdict_result, runResult>>
         /\ pcSwarm' = "raised"

\* analyze_stock resumes from its gather: final_results is built and
\* JudgeAgent.judge is called; it runs up to its awaited responder call, or
\* raises before it, and then analyze_stock runs to its end.
ResearchDone(clientOk) ==
  /\ pcSwarm = "research"
  /\ swarmFut.st = "result"
  /\ judgeCalls' = judgeCalls + 1
  /\ LET final == handle_exceptions(swarmFut.results)
         prep == judge_prepare(final, clientOk) IN
       /\ final_results' = final
       /\
          IF prep.ok
            THEN /\ judgeCall' = [st |-> "inflight", input |-> prep.context]
                 /\ pcSwarm' = "judge"
                 /\ UNCHANGED <<verdict_result, runResult>>
            ELSE /\ judgeCall' = [st |-> "failed", exc |-> prep.exc]
                 /\ Return(final,
                           run_judge_guarded([st |-> "raised", exc |-> prep.exc]))
  /\ UNCHANGED <<task, sub, gatherFut, micro_results, reduceCall, reduceCalls,
                 pipeResult, swarmFut, outOfOrder, faults, responderCalls,
                 stock_ticker, pcMain, exitCode,
                 reply, normalized, stripped, parsed, runs>>

\* The judge's responder call ends as `ev`; judge and analyze_stock run to
\* their ends.
JudgeEnds(st, ev) ==
  /\ pcSwarm = "judge"
  /\ judgeCall.st = "inflight"
  /\ judgeCall' = [judgeCall EXCEPT !.st = st]
  /\ Return(final_results, run_judge_guarded(judge_finish(ev)))
  /\ UNCHANGED <<task, sub, gatherFut, micro_results, reduceCall, reduceCalls,
                 pipeResult, swarmFut, final_results, judgeCalls, outOfOrder,
                 faults, responderCalls,
                 stock_ticker, pcMain, exitCode,
                 reply, normalized, stripped, parsed, runs>>

JudgeReplies == JudgeEnds("replied", ReplyEv(JudgeReply))

JudgeRaises == JudgeEnds("raised", RaiseEv(ResponderError))

JudgeCancelled == JudgeEnds("cancelled", RaiseEv(CancelledError))

Next ==
  \/ \E ticker \in LibraryTickers : AnalyzeStock(ticker)
  \/ \E ticker \in Tickers : Main(ticker)
  \/ \E show_research \in BOOLEAN : MainEnds(show_research)
  \/ \E p \in Agents : AnalyzeAlone(p)
  \/ \E p \in Agents, ok \in BOOLEAN : AgentAnalyze(p, ok)
  \/ \E p \in Agents, i \in 1..(MaxSubtasks + SwarmSubtasks), ok \in BOOLEAN : ResponderReplies(p, i, ok)
  \/ \E p \in Agents, i \in 1..(MaxSubtasks + SwarmSubtasks) : ResponderRaises(p, i)
  \/ \E p \in Agents, i \in 1..(MaxSubtasks + SwarmSubtasks) : ResponderCancelled(p, i)
  \/ \E p \in Agents, i \in 1..(MaxSubtasks + SwarmSubtasks) : SubtaskTimeout(p, i)
  \/ \E p \in Agents : MapPhaseDone(p)
  \/ \E p \in Agents, ok \in BOOLEAN : ReduceReplies(p, ok)
  \/ \E p \in Agents : ReduceRaises(p)
  \/ \E p \in Agents : ReduceCancelled(p)
  \/ \E ok \in BOOLEAN : ResearchDone(ok)
  \/ JudgeReplies
  \/ JudgeRaises
  \/ JudgeCancelled

Spec == Init /\ [][Next]_vars

\* The event loop runs every coroutine step that is ready, and the timer of
\* wait_for fires when its deadline passes.  Nothing makes the responder
\* answer a call.
FairSpec ==
  /\ Spec
  /\ \A p \in Agents : WF_vars(\E ok \in BOOLEAN : AgentAnalyze(p, ok))
  /\ \A p \in Agents : WF_vars(MapPhaseDone(p))
  /\ \A p \in Agents :
       WF_vars(\E i \in 1..(MaxSubtasks + SwarmSubtasks) : SubtaskTimeout(p, i))
  /\ WF_vars(\E ok \in BOOLEAN : ResearchDone(ok))

\* ------------------------------------------------ one pipeline on its own
\* One agent's analyze awaited by a caller outside analyze_stock.
PipelineNext ==
  \/ \E p \in Agents : AnalyzeAlone(p)
  \/ \E p \in Agents, ok \in BOOLEAN : AgentAnalyze(p, ok)
  \/ \E p \in Agents, i \in 1..MaxSubtasks, ok \in BOOLEAN : ResponderReplies(p, i, ok)
  \/ \E p \in Agents, i \in 1..MaxSubtasks : ResponderRaises(p, i)
  \/ \E p \in Agents, i \in 1..MaxSubtasks : ResponderCancelled(p, i)
  \/ \E p \in Agents, i \in 1..MaxSubtasks : SubtaskTimeout(p, i)
  \/ \E p \in Agents : MapPhaseDone(p)
  \/ \E p \in Agents, ok \in BOOLEAN : ReduceReplies(p, ok)
  \/ \E p \in Agents : ReduceRaises(p)
  \/ \E p \in Agents : ReduceCancelled(p)

\* The event loop runs every coroutine step that is ready, and the timer of
\* wait_for fires when its deadline passes.  Nothing makes the responder
\* answer a call.
FairPipelineSpec ==
  /\ Init /\ [][PipelineNext]_vars
  /\ \A p \in Agents : WF_vars(\E ok \in BOOLEAN : AgentAnalyze(p, ok))
  /\ \A p \in Agents : WF_vars(MapPhaseDone(p))
  /\ \A p \in Agents :
       WF_vars(\E i \in 1..MaxSubtasks : SubtaskTimeout(p, i))

\* ------------------------------------------------- the user's interruption
SIGINT == 2

\* The user interrupts main while it awaits analyze_stock.  Either
\* KeyboardInterrupt is raised in main's own frame, where it is caught and
\* sys.exit(130) is called; or asyncio.run cancels the main task and raises
\* KeyboardInterrupt itself, which no handler of main sees, and the
\* interpreter ends by SIGINT, which a shell reports as 128 + SIGINT.
\* Either way every task of the run is cancelled when the loop is closed.
Interrupt(in_main) ==
  /\ pcMain = "awaiting"
  /\ pcSwarm \in {"research", "judge"}
  /\ pcMain' = "interrupted"
  /\ exitCode' = IF in_main THEN 130 ELSE 128 + SIGINT
  /\ pcSwarm' = "raised"
  /\ task' = [p \in Agents |-> "finished"]
  /\ sub' = [p \in Agents |->
              [i \in DOMAIN sub[p] |->
                 IF sub[p][i].st = "inflight" THEN Cancelled ELSE sub[p][i]]]
  /\ reduceCall' = [p \in Agents |->
                     IF reduceCall[p].st = "inflight"
                       THEN [st |-> "cancelled"] ELSE reduceCall[p]]
  /\ judgeCall' = IF judgeCall.st = "inflight"
                    THEN [judgeCall EXCEPT !.st = "cancelled"] ELSE judgeCall
  /\ UNCHANGED <<gatherFut, micro_results, reduceCalls, pipeResult, swarmFut,
                 final_results, judgeCalls, verdict_result, runResult,
                 outOfOrder, faults, responderCalls, stock_ticker,
                 reply, normalized, stripped, parsed, runs>>

MainNext ==
  \/ Next
  \/ \E in_main \in BOOLEAN : Interrupt(in_main)

\* The runs of Spec, and those a user interrupts.
MainSpec == Init /\ [][MainNext]_vars

\* =============================================================== Extractor
\* src/src/utils/json_utils.py on texts that are sequences of characters.
\* A character is a one-character string; the eight smart quotes and the
\* backtick are written by their code points.

\* SMART_QUOTES, in the order of its items
SMART_QUOTES ==
  << <<"U+201C", "\"">>, <<"U+201D", "\"">>, <<"U+201E", "\"">>,
     <<"U+201F", "\"">>, <<"U+2019", "'">>, <<"U+2018", "'">>,
     <<"U+201A", "'">>, <<"U+201B", "'">> >>

SmartQuoteChars == {SMART_QUOTES[k][1] : k \in 1..Len(SMART_QUOTES)}

\* s.replace(k, v) for one-character k and v
str_replace(s, k, v) == [i \in 1..Len(s) |-> IF s[i] = k THEN v ELSE s[i]]

RECURSIVE replace_items(_, _, _)
replace_items(s, items, n) ==
  IF n > Len(items) THEN s
  ELSE replace_items(str_replace(s, items[n][1], items[n][2]), items, n + 1)

\* _normalize_quotes handling the curly quotes only (the first, second,
\* fifth and sixth item), not the low and high variants.
normalize_curly_quotes_only(s) ==
  replace_items(s, <<SMART_QUOTES[1], SMART_QUOTES[2], SMART_QUOTES[5],
                     SMART_QUOTES[6]>>, 1)

\* _normalize_quotes handling the four double smart quotes only.
normalize_double_quotes_only(s) ==
  replace_items(s, SubSeq(SMART_QUOTES, 1, 4), 1)

\* for k, v in SMART_QUOTES.items(): s = s.replace(k, v)
normalize_quotes(s) == replace_items(s, SMART_QUOTES, 1)

\* \s of the regular expressions and str.strip(), over the characters used
IsSpace(c) == c \in {" ", "\n"}

RECURSIVE lstrip(_)
lstrip(s) == IF s # <<>> /\ IsSpace(Head(s)) THEN lstrip(Tail(s)) ELSE s

RECURSIVE rstrip(_)
rstrip(s) ==
  IF s # <<>> /\ IsSpace(s[Len(s)]) THEN rstrip(SubSeq(s, 1, Len(s) - 1)) ELSE s

strip(s) == lstrip(rstrip(s))

\* three backticks (U+0060)
Fence == <<"U+0060", "U+0060", "U+0060">>

startswith(s, prefix) ==
  Len(s) >= Len(prefix) /\ SubSeq(s, 1, Len(prefix)) = prefix

endswith(s, suffix) ==
  Len(s) >= Len(suffix) /\ SubSeq(s, Len(s) - Len(suffix) + 1, Len(s)) = suffix

\* re.IGNORECASE match of "json" at the head of s
starts_with_json(s) ==
  /\ Len(s) >= 4
  /\ s[1] \in {"j", "J"}
  /\ s[2] \in {"s", "S"}
  /\ s[3] \in {"o", "O"}
  /\ s[4] \in {"n", "N"}

\* re.sub(r"^```(?:json)?\s*", "", s, flags=re.IGNORECASE) on an s that
\* starts with the fence
sub_first_fence(s) ==
  LET rest == SubSeq(s, 4, Len(s))
      untagged == IF starts_with_json(rest) THEN SubSeq(rest, 5, Len(rest))
                                            ELSE rest
  IN lstrip(untagged)

\* re.sub(r"\s*```$", "", s)
sub_last_fence(s) ==
  IF endswith(s, Fence) THEN rstrip(SubSeq(s, 1, Len(s) - 3)) ELSE s

\* _strip_code_fences removing the whole fenced block, from the opening
\* fence to the closing one.
strip_code_fences_with_block(s) ==
  LET t == strip(s) IN
    IF startswith(t, Fence) /\ endswith(t, Fence) /\ Len(t) >= 6
      THEN <<>>
      ELSE t

\* _strip_code_fences
strip_code_fences(s) ==
  LET t == strip(s) IN
    IF startswith(t, Fence)
      THEN strip(sub_last_fence(sub_first_fence(t)))
      ELSE t

\* s.find("{"): the index of the first "{" (from 1), 0 if there is none
find_brace(s, i) ==
  LET at == {k \in i..Len(s) : s[k] = "{"}
  IN IF at = {} THEN 0 ELSE CHOOSE k \in at : \A j \in at : k <= j

NoBrace == [type |-> "ValueError", msg |-> "No '{' found in text"]
Unbalanced == [type |-> "ValueError", msg |-> "Unbalanced JSON braces"]

\* The loop body with a backslash taken as any other character.
scan_step_ignoring_escapes(c, in_str, esc) ==
  IF c = "\"" THEN [in_str |-> ~in_str, esc |-> FALSE]
  ELSE [in_str |-> in_str, esc |-> FALSE]

\* What one pass of the loop body makes of in_str and esc on character c.
scan_step(c, in_str, esc) ==
  IF in_str
    THEN IF esc THEN [in_str |-> TRUE, esc |-> FALSE]
         ELSE IF c = "\\" THEN [in_str |-> TRUE, esc |-> TRUE]
         ELSE IF c = "\"" THEN [in_str |-> FALSE, esc |-> FALSE]
         ELSE [in_str |-> TRUE, esc |-> FALSE]
    ELSE IF c = "\"" THEN [in_str |-> TRUE, esc |-> esc]
         ELSE [in_str |-> FALSE, esc |-> esc]

\* The loop of _first_balanced_json_object from index i on.
RECURSIVE scan_braces(_, _, _, _, _, _)
scan_braces(s, start, i, depth, in_str, esc) ==
  IF i > Len(s) THEN [ok |-> FALSE, exc |-> Unbalanced]
  ELSE LET c == s[i]
           flags == scan_step(c, in_str, esc) IN
    IF in_str \/ c = "\""
      THEN scan_braces(s, start, i + 1, depth, flags.in_str, flags.esc)
      ELSE IF c = "{"
             THEN scan_braces(s, start, i + 1, depth + 1, flags.in_str, flags.esc)
           ELSE IF c = "}"
             THEN IF depth - 1 = 0
                    THEN [ok |-> TRUE, chunk |-> SubSeq(s, start, i)]
                    ELSE scan_braces(s, start, i + 1, depth - 1,
                                     flags.in_str, flags.esc)
           ELSE scan_braces(s, start, i + 1, depth, flags.in_str, flags.esc)

\* in_str after each pass of the loop over s, from its first character on.
RECURSIVE in_str_after(_, _, _, _)
in_str_after(s, i, in_str, esc) ==
  IF i > Len(s) THEN <<>>
  ELSE LET flags == scan_step(s[i], in_str, esc) IN
    <<flags.in_str>> \o in_str_after(s, i + 1, flags.in_str, flags.esc)

\* The scan counting every brace, inside string literals too.
RECURSIVE scan_all_braces(_, _, _, _)
scan_all_braces(s, start, i, depth) ==
  IF i > Len(s) THEN [ok |-> FALSE, exc |-> Unbalanced]
  ELSE IF s[i] = "{" THEN scan_all_braces(s, start, i + 1, depth + 1)
  ELSE IF s[i] = "}"
    THEN IF depth - 1 = 0
           THEN [ok |-> TRUE, chunk |-> SubSeq(s, start, i)]
           ELSE scan_all_braces(s, start, i + 1, depth - 1)
  ELSE scan_all_braces(s, start, i + 1, depth)

\* _first_balanced_json_object without the in_str and esc tracking
first_balanced_json_object_ignoring_strings(s) ==
  LET start == find_brace(s, 1) IN
    IF start = 0 THEN [ok |-> FALSE, exc |-> NoBrace]
    ELSE scan_all_braces(s, start, start, 0)

\* The text from the first opening brace to the last closing brace.
first_balanced_json_object_to_last_brace(s) ==
  LET start == find_brace(s, 1)
      closing == {k \in 1..Len(s) : s[k] = "}" /\ k > start} IN
    IF start = 0 THEN [ok |-> FALSE, exc |-> NoBrace]
    ELSE IF closing = {} THEN [ok |-> FALSE, exc |-> Unbalanced]
    ELSE [ok |-> TRUE,
          chunk |-> SubSeq(s, start, CHOOSE k \in closing : \A j \in closing : j <= k)]

\* _first_balanced_json_object: the chunk, or the ValueError it raises
first_balanced_json_object(s) ==
  LET start == find_brace(s, 1) IN
    IF start = 0 THEN [ok |-> FALSE, exc |-> NoBrace]
    ELSE scan_braces(s, start, start, 0, FALSE, FALSE)

\* ---- json.loads, on the characters used: objects, arrays, strings and
\* numbers written with the digit 7 (no other JSON literal can be spelled).
\* A decoded value is [t |-> "object", v |-> <function of the keys>],
\* [t |-> "array", v |-> <sequence>], [t |-> "string", v |-> <characters>]
\* or [t |-> "number", v |-> <digits>].
JSONDecodeError == [ok |-> FALSE]
Decoded(val, pos) == [ok |-> TRUE, val |-> val, pos |-> pos]

\* json's WHITESPACE, over the characters used
RECURSIVE skip_ws(_, _)
skip_ws(s, i) == IF i <= Len(s) /\ s[i] \in {" ", "\n"} THEN skip_ws(s, i + 1) ELSE i

\* The backslash escapes of a JSON string, over the characters used.
Escapes == [c \in {"\"", "\\", "n"} |-> IF c = "n" THEN "\n" ELSE c]

\* scanstring (strict) from index i, just after the opening quote
RECURSIVE scanstring(_, _, _)
scanstring(s, i, acc) ==
  IF i > Len(s) THEN JSONDecodeError
  ELSE IF s[i] = "\"" THEN Decoded([t |-> "string", v |-> acc], i + 1)
  ELSE IF s[i] = "\\"
    THEN IF i + 1 <= Len(s) /\ s[i + 1] \in DOMAIN Escapes
           THEN scanstring(s, i + 2, Append(acc, Escapes[s[i + 1]]))
           ELSE JSONDecodeError
  ELSE IF s[i] = "\n" THEN JSONDecodeError
  ELSE scanstring(s, i + 1, Append(acc, s[i]))

RECURSIVE scan_digits(_, _)
scan_digits(s, i) == IF i <= Len(s) /\ s[i] = "7" THEN scan_digits(s, i + 1) ELSE i

RECURSIVE scan_once(_, _)
RECURSIVE JSONObject(_, _, _)
RECURSIVE JSONArray(_, _, _)

\* JSONObject from index i, where a key's opening quote is expected;
\* pairs holds the members read so far (a later key replaces an equal one)
JSONObject(s, i, pairs) ==
  IF i > Len(s) \/ s[i] # "\"" THEN JSONDecodeError
  ELSE LET key == scanstring(s, i + 1, <<>>) IN
    IF ~key.ok THEN JSONDecodeError
    ELSE LET colon == skip_ws(s, key.pos) IN
      IF colon > Len(s) \/ s[colon] # ":" THEN JSONDecodeError
      ELSE LET value == scan_once(s, skip_ws(s, colon + 1)) IN
        IF ~value.ok THEN JSONDecodeError
        ELSE LET more == (key.val.v :> value.val) @@ pairs
                 next == skip_ws(s, value.pos) IN
          IF next > Len(s) THEN JSONDecodeError
          ELSE IF s[next] = "}"
            THEN Decoded([t |-> "object", v |-> more], next + 1)
          ELSE IF s[next] = ","
            THEN JSONObject(s, skip_ws(s, next + 1), more)
          ELSE JSONDecodeError

\* JSONArray from index i, where an element is expected
JSONArray(s, i, values) ==
  LET value == scan_once(s, i) IN
    IF ~value.ok THEN JSONDecodeError
    ELSE LET more == Append(values, value.val)
             next == skip_ws(s, value.pos) IN
      IF next > Len(s) THEN JSONDecodeError
      ELSE IF s[next] = "]" THEN Decoded([t |-> "array", v |-> more], next + 1)
      ELSE IF s[next] = "," THEN JSONArray(s, skip_ws(s, next + 1), more)
      ELSE JSONDecodeError

\* scan_once at index i
scan_once(s, i) ==
  IF i > Len(s) THEN JSONDecodeError
  ELSE IF s[i] = "\"" THEN scanstring(s, i + 1, <<>>)
  ELSE IF s[i] = "{"
    THEN LET first == skip_ws(s, i + 1) IN
      IF first <= Len(s) /\ s[first] = "}"
        THEN Decoded([t |-> "object", v |-> <<>>], first + 1)
        ELSE JSONObject(s, first, <<>>)
  ELSE IF s[i] = "["
    THEN LET first == skip_ws(s, i + 1) IN
      IF first <= Len(s) /\ s[first] = "]"
        THEN Decoded([t |-> "array", v |-> <<>>], first + 1)
        ELSE JSONArray(s, first, <<>>)
  ELSE IF s[i] = "7"
    THEN LET end == scan_digits(s, i) IN
      Decoded([t |-> "number", v |-> SubSeq(s, i, end - 1)], end)
  ELSE JSONDecodeError

\* json.loads: one value with nothing but whitespace around it
json_loads(s) ==
  LET value == scan_once(s, skip_ws(s, 1)) IN
    IF value.ok /\ skip_ws(s, value.pos) = Len(s) + 1
      THEN [ok |-> TRUE, value |-> value.val]
      ELSE [ok |-> FALSE]

\* s[:5000] of the ValueError's message
RawLimit == 5000

\* The ValueError carrying the whole text.
ParseFailure_whole(s) ==
  [type |-> "ValueError", msg |-> <<"Failed to parse model JSON. Raw:", s>>]

ParseFailure(s) ==
  [type |-> "ValueError",
   msg |-> <<"Failed to parse model JSON. Raw:", SubSeq(s, 1, Min(Len(s), RawLimit))>>]

\* json.loads(repair_json(s)) of the fallback, when json_repair could be
\* imported.  json_repair is no part of this repository: a text that is a
\* JSON object or array already keeps its value; for any other text but
\* the empty one, `repairs` says whether a value comes out of it.
repair_and_load(s, repairs) ==
  LET asis == json_loads(s) IN
    IF asis.ok /\ asis.value.t \in {"object", "array"} THEN asis
    ELSE IF repairs /\ s # <<>>
      THEN [ok |-> TRUE, value |-> [t |-> "repaired", v |-> <<>>]]
    ELSE [ok |-> FALSE]

\* The keys of a sub-task record, as the prompts of the agents list them.
SummaryKey == <<"s", "u", "m", "m", "a", "r", "y">>
ConfidenceKey == <<"c", "o", "n", "f", "i", "d", "e", "n", "c", "e">>
MetricsKey == <<"m", "e", "t", "r", "i", "c", "s">>
StrengthsKey == <<"s", "t", "r", "e", "n", "g", "t", "h", "s">>
WeaknessesKey == <<"w", "e", "a", "k", "n", "e", "s", "s", "e", "s">>
StanceKey == <<"s", "t", "a", "n", "c", "e">>

\* The six required keys of a record, spelled out.
RequiredKeys ==
  {SummaryKey, ConfidenceKey, MetricsKey, StrengthsKey, WeaknessesKey, StanceKey}

\* parse_model_json with a check of the keys: an object that has not exactly
\* the six required keys is refused.
parse_model_json_text_validating(raw, import_ok, repairs) ==
  LET s == normalize_quotes(strip_code_fences(raw))
      found == first_balanced_json_object(s)
      loaded == IF found.ok THEN json_loads(found.chunk) ELSE [ok |-> FALSE]
  IN IF loaded.ok /\ DOMAIN loaded.value.v = RequiredKeys
       THEN [ok |-> TRUE, value |-> loaded.value]
       ELSE [ok |-> FALSE, exc |-> ParseFailure(s)]

\* The try blocks of parse_model_json, on the text s with fences stripped
\* and quotes normalized.
load_first_object(s, import_ok, repairs) ==
  LET found == first_balanced_json_object(s)
      loaded == IF found.ok THEN json_loads(found.chunk) ELSE [ok |-> FALSE]
  IN IF loaded.ok THEN [ok |-> TRUE, value |-> loaded.value]
     ELSE IF ~import_ok THEN [ok |-> FALSE, exc |-> ParseFailure(s)]
     ELSE LET again == repair_and_load(s, repairs) IN
       IF again.ok THEN [ok |-> TRUE, value |-> again.value]
                   ELSE [ok |-> FALSE, exc |-> ParseFailure(s)]

\* parse_model_json on a text: [ok |-> TRUE, value |-> v] if it returns v,
\* [ok |-> FALSE, exc |-> e] if it raises e.
\*   import_ok: does `from json_repair import repair_json` succeed
parse_model_json_text(raw, import_ok, repairs) ==
  load_first_object(normalize_quotes(strip_code_fences(raw)), import_ok, repairs)

\* ------------------------------------------------- texts for the Extractor
\* All sequences over `chars` of length 0..n
Strings(chars, n) == UNION {[1..k -> chars] : k \in 0..n}

\* Every text of up to MaxLen of these characters.
TextChars == {"{", "}", "[", "]", "7", "\"", "'"} \cup SmartQuoteChars

\* JSON documents, as trees.
JStr(v) == [t |-> "string", v |-> v]
JNum == [t |-> "number", v |-> <<"7">>]
JObj(members) == [t |-> "object", members |-> members]
JArr(items) == [t |-> "array", items |-> items]

\* The characters of the string values.
ContentChars == {"x", "{", "}", "'", "\"", "\\"}

Documents ==
  {JObj(<< <<(<<"x">>), JStr(v)>> >>) : v \in Strings(ContentChars, MaxValueLen)}
    \cup {JObj(<< <<(<<"s">>), JStr(v)>>, <<(<<"n">>), JNum>> >>) :
            v \in Strings({"{", "}"}, MaxValueLen)}
    \cup {JObj(<< <<(<<"x">>), JObj(<< <<(<<"s">>), JStr(<<c>>)>> >>)>> >>) :
            c \in {"{", "}"}}
    \cup {JObj(<< <<(<<"x">>), JArr(<<JStr(<<"}">>), JNum>>)>> >>)}
    \cup {JObj(<< <<SummaryKey, JStr(<<"o", "k">>)>>, <<ConfidenceKey, JNum>> >>)}

RECURSIVE flatten(_)
flatten(parts) == IF parts = <<>> THEN <<>> ELSE Head(parts) \o flatten(Tail(parts))

\* What json.loads is to return for the text of a document.
RECURSIVE value_of(_)
value_of(doc) ==
  CASE doc.t = "object" ->
         [t |-> "object",
          v |-> [key \in {doc.members[k][1] : k \in DOMAIN doc.members} |->
                   LET last == CHOOSE k \in DOMAIN doc.members :
                                 /\ doc.members[k][1] = key
                                 /\ \A j \in DOMAIN doc.members :
                                      doc.members[j][1] = key => j <= k
                   IN value_of(doc.members[last][2])]]
    [] doc.t = "array" ->
         [t |-> "array", v |-> [k \in DOMAIN doc.items |-> value_of(doc.items[k])]]
    [] OTHER -> doc

escaped(v) ==
  flatten([k \in DOMAIN v |->
             IF v[k] \in {"\"", "\\"} THEN <<"\\", v[k]>> ELSE <<v[k]>>])

\* The text of a document with ASCII quotes, as json.dumps writes it.
RECURSIVE dumps(_)
dumps(doc) ==
  CASE doc.t = "string" -> <<"\"">> \o escaped(doc.v) \o <<"\"">>
    [] doc.t = "number" -> doc.v
    [] doc.t = "object" ->
         <<"{">> \o
         flatten([k \in DOMAIN doc.members |->
                    (IF k > 1 THEN <<",", " ">> ELSE <<>>)
                    \o dumps(JStr(doc.members[k][1])) \o <<":", " ">>
                    \o dumps(doc.members[k][2])])
         \o <<"}">>
    [] doc.t = "array" ->
         <<"[">> \o
         flatten([k \in DOMAIN doc.items |->
                    (IF k > 1 THEN <<",", " ">> ELSE <<>>) \o dumps(doc.items[k])])
         \o <<"]">>

\* The ways a reply wraps a JSON text in a fenced code block.
Fenced(core) ==
  {Fence \o <<"j", "s", "o", "n", "\n">> \o core \o <<"\n">> \o Fence,
   Fence \o <<"\n">> \o core \o <<"\n">> \o Fence,
   <<" ", "\n">> \o Fence \o <<"J", "S", "O", "N", " ">> \o core \o <<" ">>
     \o Fence \o <<"\n">>}

\* The ways a reply sets a JSON text among other text.
SecondObject == <<"{", "\"", "n", "\"", ":", " ", "7", "}">>

Embedded(core) ==
  {core, <<"x", ":", " ">> \o core \o <<" ", "x", "}", "\"">>,
   core \o <<" ">> \o SecondObject}

DoubleQuotes == {"\"", "U+201C", "U+201D", "U+201E", "U+201F"}
SingleQuotes == {"'", "U+2019", "U+2018", "U+201A", "U+201B"}

\* The text with its double quotes replaced by dqs[1], dqs[2], dqs[1], ...
\* in turn and each of its single quotes by sq.
Requoted(core, dqs, sq) ==
  [i \in DOMAIN core |->
     IF core[i] = "\""
       THEN LET nth == Cardinality({j \in 1..i : core[j] = "\""})
            IN dqs[((nth - 1) % 2) + 1]
     ELSE IF core[i] = "'" THEN sq
     ELSE core[i]]

\* n times the character c
Repeat(c, n) == [i \in 1..n |-> c]

\* The characters of the texts made of fences: the backtick, a letter and
\* white space.
FenceChars == {"U+0060", "x", "\n"}

\* Texts without a brace as long as the limit of the message, one character
\* shorter and one longer, and a fenced text whose last character within
\* the limit, once the fence is stripped, is a smart quote.
LongTexts ==
  {Repeat("x", n) : n \in {RawLimit - 1, RawLimit, RawLimit + 1}}
    \cup {Fence \o <<"\n">> \o Repeat("x", RawLimit - 1) \o <<"U+201D", "x">>}

\* The texts given to the Extractor, each with how it was composed.
Given(kind, raw, doc) ==
  [kind |-> kind, text |-> raw, core |-> dumps(doc), value |-> value_of(doc)]

Replies(len, fencelen) ==
  {[kind |-> "text", text |-> raw, core |-> <<>>, value |-> JStr(<<>>)] :
     raw \in Strings(TextChars, len)}
    \cup {[kind |-> "fences", text |-> raw, core |-> <<>>, value |-> JStr(<<>>)] :
            raw \in Strings(FenceChars, fencelen)}
    \cup {[kind |-> "long", text |-> raw, core |-> <<>>, value |-> JStr(<<>>)] :
            raw \in LongTexts}
    \cup UNION {{Given("fenced", raw, doc) : raw \in Fenced(dumps(doc))} :
                  doc \in Documents}
    \cup UNION {{Given("embedded", raw, doc) : raw \in Embedded(dumps(doc))} :
                  doc \in Documents}
    \cup UNION {{Given("requoted", Requoted(dumps(doc), dqs, sq), doc) :
                   dqs \in (DoubleQuotes \X DoubleQuotes) \ {<<"\"", "\"">>},
                   sq \in SingleQuotes} :
                  doc \in Documents}

\* ---------------------------------------------------- Extractor on its own
ExtractInit ==
  /\ Constructed
  /\ reply \in Replies(MaxLen, MaxFenceLen)
  /\ normalized = NoValue
  /\ stripped = NoValue
  /\ parsed = NoValue

swarmVars ==
  <<pcSwarm, task, sub, gatherFut, micro_results, reduceCall, reduceCalls,
    pipeResult, swarmFut, final_results, judgeCall, judgeCalls, verdict_result,
    runResult, outOfOrder, faults, responderCalls, stock_ticker, pcMain,
    exitCode, runs>>

\* One function of the Extractor is called on the text, on its own.
Fresh ==
  /\ reply # NoValue
  /\ normalized = NoValue
  /\ stripped = NoValue
  /\ parsed = NoValue

\* _normalize_quotes(reply) is called.
NormalizeQuotes ==
  /\ Fresh
  /\ normalized' = [result |-> normalize_quotes(reply.text)]
  /\ UNCHANGED <<reply, stripped, parsed, runs>>
  /\ UNCHANGED swarmVars

\* parse_model_json(reply) is called and returns or raises.
ParseModelJson(import_ok, repairs) ==
  /\ Fresh
  /\ parsed' = parse_model_json_text(reply.text, import_ok, repairs)
  /\ UNCHANGED <<reply, normalized, stripped>>
  /\ UNCHANGED swarmVars

\* _strip_code_fences(reply) is called.
StripCodeFences ==
  /\ Fresh
  /\ stripped' = [result |-> strip_code_fences(reply.text)]
  /\ UNCHANGED <<reply, normalized, parsed>>
  /\ UNCHANGED swarmVars

ExtractNext ==
  \/ NormalizeQuotes
  \/ StripCodeFences
  \/ \E import_ok \in BOOLEAN, repairs \in BOOLEAN :
       ParseModelJson(import_ok, repairs)

ExtractSpec == ExtractInit /\ [][ExtractNext]_vars

\* ------------------------------------- two calls on one InvestSwarm object
\* The variables of the single call.
oneRunVars ==
  <<pcSwarm, task, sub, gatherFut, micro_results, reduceCall, reduceCalls,
    pipeResult, swarmFut, final_results, judgeCall, judgeCalls, verdict_result,
    runResult, outOfOrder, faults, responderCalls, stock_ticker, pcMain,
    exitCode, reply, normalized, stripped, parsed>>

\* The reply to a prompt: it speaks of the ticker the prompt names; `run`
\* records which call of analyze_stock issued the prompt.
Prompted(call, text) ==
  [parsable |-> text.parsable,
   json |-> [ticker |-> call.ticker, run |-> call.run] @@ text.json]

\* A reduce call or a judge's call may still end in an error (how the
\* call of a sub-task ends is the matter of the single call).
RunFaultAllowed == runs.faults < MaxFaults

\* How a responder call of the two calls ends: in an error, or answered.
RunEvent(fails, call, text) ==
  IF fails THEN RaiseEv(ResponderError) ELSE ReplyEv(Prompted(call, text))

\* analyze_stock(ticker) is called as call r: it runs to its gather, and the
\* analyze of each agent to its own gather, every run_subtask having built
\* its prompt from the stock_ticker of its analyze and awaiting the
\* responder.
RunStarts(r, ticker) ==
  /\ runs.pc[r] = "idle"
  /\ LET started == {frame_of(r, p) : p \in Agents}
         frames == [k \in Runs \X Agents |->
                      IF k \in started
                        THEN [stock_ticker |-> upper(ticker), micro_results |-> <<>>]
                        ELSE runs.frame[k]] IN
       runs' = [runs EXCEPT
                  !.pc[r] = "research",
                  !.stock_ticker[r] = upper(ticker),
                  !.frame = frames,
                  !.sub = [k \in Runs \X Agents |->
                             IF k[1] = r
                               THEN [i \in 1..N(k[2]) |->
                                       [st |-> "inflight", run |-> r,
                                        name |-> subtasks(k[2])[i],
                                        ticker |-> frames[frame_of(r, k[2])].stock_ticker]]
                               ELSE @[k]]]
  /\ UNCHANGED oneRunVars

\* The responder call of sub-task i of agent p in call r is answered and
\* run_subtask returns; when it was the last one of the agent, gather
\* hands the records over, analyze assigns micro_results, builds the
\* reduce prompt from stock_ticker and micro_results and awaits the reply.
RunSubtaskEnds(r, p, i) ==
  /\ runs.pc[r] = "research"
  /\ i \in DOMAIN runs.sub[<<r, p>>]
  /\ runs.sub[<<r, p>>][i].st = "inflight"
  /\ LET ev == RunEvent(FALSE, runs.sub[<<r, p>>][i],
                        MicroReply(p, subtasks(p)[i], TRUE))
         children == [runs.sub[<<r, p>>] EXCEPT ![i] = run_subtask(p, @.name, ev)]
         last == \A j \in DOMAIN children : children[j].st = "done"
         records == [j \in DOMAIN children |-> children[j].result]
         frames == IF last
                     THEN [runs.frame EXCEPT ![frame_of(r, p)].micro_results = records]
                     ELSE runs.frame
         locals == frames[frame_of(r, p)] IN
       runs' = [runs EXCEPT
                  !.sub[<<r, p>>] = children,
                  !.frame = frames,
                  !.reduce[<<r, p>>] =
                     IF last THEN [st |-> "inflight", run |-> r,
                                   ticker |-> locals.stock_ticker,
                                   input |-> locals.micro_results]
                             ELSE @]
  /\ UNCHANGED oneRunVars

\* The reduce call of agent p in call r ends and analyze returns its
\* entry, the envelope holding micro_results when the call failed.
RunReduceEnds(r, p, fails) ==
  /\ runs.pc[r] = "research"
  /\ runs.reduce[<<r, p>>].st = "inflight"
  /\ fails => RunFaultAllowed
  /\ LET call == runs.reduce[<<r, p>>]
         ev == RunEvent(fails, call, ReduceReply(p, call.input, TRUE)) IN
       runs' = [runs EXCEPT
                  !.reduce[<<r, p>>].st = "done",
                  !.pipeline[<<r, p>>] =
                     analyze_reduce(p, runs.frame[frame_of(r, p)].micro_results,
                                    ev).result,
                  !.faults = IF fails THEN @ + 1 ELSE @]
  /\ UNCHANGED oneRunVars

\* The gather of call r hands over the three entries; analyze_stock builds
\* final_results and calls judge, which runs to its responder call.
RunJudges(r) ==
  /\ runs.pc[r] = "research"
  /\ \A p \in Agents : runs.pipeline[<<r, p>>] # NoValue
  /\ LET final == handle_exceptions([k \in 1..3 |-> runs.pipeline[<<r, AgentOrder[k]>>]])
         prep == judge_prepare(final, TRUE) IN
       runs' = [runs EXCEPT
                  !.pc[r] = "judge",
                  !.final_results[r] = final,
                  !.judge[r] = [st |-> "inflight", run |-> r,
                                ticker |-> runs.stock_ticker[r],
                                input |-> prep.context]]
  /\ UNCHANGED oneRunVars

\* The judge's call of call r ends and analyze_stock returns.
RunJudgeEnds(r, fails) ==
  /\ runs.pc[r] = "judge"
  /\ runs.judge[r].st = "inflight"
  /\ fails => RunFaultAllowed
  /\ LET ev == IF fails THEN RaiseEv(ResponderError) ELSE ReplyEv(JudgeReply) IN
     runs' = [runs EXCEPT
                !.pc[r] = "done",
                !.judge[r].st = "done",
                !.result[r] =
                   compile_output(runs.stock_ticker[r], runs.final_results[r],
                                  run_judge_guarded(judge_finish(ev)).result),
                !.faults = IF fails THEN @ + 1 ELSE @]
  /\ UNCHANGED oneRunVars

TwoRunNext ==
  \E r \in Runs :
    \/ \E ticker \in LibraryTickers : RunStarts(r, ticker)
    \/ \E p \in Agents : \E i \in 1..MaxSubtasks : RunSubtaskEnds(r, p, i)
    \/ \E p \in Agents : \E fails \in BOOLEAN : RunReduceEnds(r, p, fails)
    \/ RunJudges(r)
    \/ \E fails \in BOOLEAN : RunJudgeEnds(r, fails)

TwoRunSpec == Init /\ [][TwoRunNext]_vars

\* ================================================================== claims
Name(p, i) == subtasks(p)[i]

\* A FailurePlaceholder for descriptor `name`.
IsPlaceholderFor(rec, name) ==
  /\ rec.confidence = 0
  /\ Len(rec.summary) = 3
  /\ rec.summary[1] = name
  /\ rec.summary[2] = "failed"

\* The record the Extractor yields for the reply to descriptor `name`.
ParsedFor(p, name) == MicroReply(p, name, TRUE).json

\* The descriptor a record speaks of.
DescriptorOf(rec) ==
  IF Len(rec.summary) = 3 THEN rec.summary[1] ELSE rec.summary[2]

HowSet(p) == {sub[p][i].how : i \in DOMAIN sub[p]}

\* C1: with K of the N sub-tasks of a pipeline timed out and the others
\* answered by parsable replies, the list in the reduce prompt has exactly N
\* entries, the K timed-out positions hold the placeholders of their own
\* descriptors (confidence 0) and every other position holds the parsed
\* record of its descriptor.
C1_ReduceInputComplete ==
  \A p \in Agents :
    (task[p] = "reduce" /\ HowSet(p) \subseteq {"timeout", "parsed"}) =>
      LET input == reduceCall[p].input IN
        /\ Len(input) = N(p)
        /\ \A i \in 1..N(p) :
             /\ sub[p][i].how = "timeout" =>
                  IsPlaceholderFor(input[i], Name(p, i))
             /\ sub[p][i].how = "parsed" => input[i] = ParsedFor(p, Name(p, i))
        /\ Cardinality({i \in 1..Len(input) : input[i].confidence = 0})
             = Cardinality({i \in 1..N(p) : sub[p][i].how = "timeout"})

\* C1 witness: a reduce call issued over three descriptors of which one, not
\* the last, timed out and another was parsed.
C1_Witness ==
  \E p \in Agents :
    /\ task[p] = "reduce"
    /\ N(p) >= 3
    /\ HowSet(p) = {"timeout", "parsed"}
    /\ sub[p][2].how = "timeout"
    /\ sub[p][3].how = "parsed"
    /\ Len(reduceCall[p].input) = 3

\* C2: whatever the order in which the sub-tasks finished, entry i of the
\* reduce input is the record of descriptor i.
C2_PositionalCollection ==
  \A p \in Agents :
    task[p] = "reduce" =>
      /\ Len(reduceCall[p].input) = N(p)
      /\ micro_results[p] = reduceCall[p].input
      /\ \A i \in 1..Len(reduceCall[p].input) :
           /\ reduceCall[p].input[i] = sub[p][i].result
           /\ DescriptorOf(reduceCall[p].input[i]) = Name(p, i)

\* C2 witness: a reduce call issued after a later sub-task finished before
\* an earlier one.
C2_Witness ==
  \E p \in Agents :
    /\ task[p] = "reduce"
    /\ outOfOrder[p]
    /\ Len(reduceCall[p].input) >= 2

\* C3: run_subtask never ends by raising; a call that timed out, was
\* cancelled, raised or was answered unparsably gives a placeholder naming
\* the descriptor.
C3_RunnerNeverRaises ==
  \A p \in Agents : \A i \in DOMAIN sub[p] :
    /\ sub[p][i].st # "cancelled"
    /\ (sub[p][i].st = "done" /\ sub[p][i].how # "parsed") =>
         IsPlaceholderFor(sub[p][i].result, Name(p, i))

\* C4: every analyze_stock call eventually ends, whatever the responder
\* does, because every leaf call has a deadline.
C4_AnalyzeStockTerminates ==
  (pcSwarm = "research") ~> (pcSwarm \in {"done", "raised"})

\* C5: a pipeline that launched its map phase issues exactly one reduce
\* call, only after all its sub-tasks are done, and does not leave the map
\* phase while one of them is in flight.
C5_ReduceOnceAfterMap ==
  \A p \in Agents :
    /\ reduceCalls[p] <= 1
    /\ reduceCall[p].st = "inflight" =>
         \A i \in DOMAIN sub[p] : sub[p][i].st = "done"
    /\ (task[p] = "finished" /\ sub[p] # <<>>) =>
         /\ reduceCalls[p] = 1
         /\ \A i \in DOMAIN sub[p] : sub[p][i].st # "inflight"

\* C6: when the reduce call raises an error or is answered unparsably,
\* analyze returns status "partial" with an envelope {error, partials}
\* whose partials is the very list that was sent to the reducer.
C6_EnvelopeKeepsPartials ==
  [][\A p \in Agents :
       (reduceCall[p].st = "inflight"
        /\ reduceCall'[p].st \in {"raised", "unparsable"}) =>
         /\ pipeResult'[p].st = "returned"
         /\ pipeResult'[p].result.status = "partial"
         /\ DOMAIN pipeResult'[p].result.analysis = {"error", "partials"}
         /\ pipeResult'[p].result.analysis.partials = reduceCall[p].input
         /\ Len(pipeResult'[p].result.analysis.partials) = N(p)]_vars

\* C6 witness: a pipeline returned an envelope whose partials hold a
\* placeholder and a parsed record.
C6_Witness ==
  \E p \in Agents :
    /\ pipeResult[p].st = "returned"
    /\ pipeResult[p].result.status = "partial"
    /\ reduceCall[p].st \in {"raised", "unparsable"}
    /\ Len(pipeResult[p].result.analysis.partials) >= 2
    /\ pipeResult[p].result.analysis.partials[1].confidence = 0
    /\ pipeResult[p].result.analysis.partials[2].confidence = 7

RaisedError(p) == pipeResult[p].st = "raised" /\ IsException(pipeResult[p].exc)

OnlyRaiser(p) ==
  /\ RaisedError(p)
  /\ \A q \in Agents \ {p} : pipeResult[q].st = "returned"

\* C7: when exactly one pipeline raises an error, analyze_stock returns
\* status "success", the research entries of the other two are the records
\* they returned, and the entry of the raising one is an error entry under
\* its own name carrying the error's text.
C7_OneRaiserIsolated ==
  \A p \in Agents :
    (pcSwarm \in {"judge", "done"} /\ OnlyRaiser(p)) =>
      /\ \A q \in Agents \ {p} :
           final_results[AgentIndex(q)] = pipeResult[q].result
      /\ final_results[AgentIndex(p)] =
           [agent |-> p, agent_name |-> TitleAgent[p],
            analysis |-> Str("Error: ", pipeResult[p].exc.msg),
            status |-> "error"]
      /\ pcSwarm = "done" =>
           /\ runResult.status = "success"
           /\ \A q \in Agents : runResult.research[q] = final_results[AgentIndex(q)]

\* C7 witness: a finished run in which only the market pipeline raised.
C7_Witness ==
  /\ pcSwarm = "done"
  /\ OnlyRaiser("market")
  /\ runResult.research["market"].status = "error"

JudgeEndedNormally ==
  \/ judgeCall.st \in {"replied", "raised"}
  \/ judgeCall.st = "failed" /\ IsException(judgeCall.exc)

\* C8: whatever the pipelines (success, reduce failure, raised) and the
\* judge (success, responder failure, raised) come to, analyze_stock
\* returns status "success" with the three research entries and a verdict.
C8_AlwaysSuccessEnvelope ==
  /\ JudgeEndedNormally => pcSwarm = "done"
  /\ pcSwarm = "done" =>
       /\ runResult.status = "success"
       /\ DOMAIN runResult.research = Agents
       /\ \A k \in 1..3 : runResult.research[AgentOrder[k]] = final_results[k]
       /\ runResult.verdict = verdict_result
       /\ verdict_result.status \in {"success", "error"}

\* C8 witness: a finished run with a raised pipeline, a pipeline whose
\* reduce failed and a judge that failed.
C8_Witness ==
  /\ pcSwarm = "done"
  /\ \E p \in Agents : RaisedError(p)
  /\ \E p \in Agents :
       pipeResult[p].st = "returned" /\ pipeResult[p].result.status = "partial"
  /\ verdict_result.status = "error"
  /\ runResult.status = "success"

\* The entry pipeline p contributes to final_results.
EntryOf(p) ==
  IF pipeResult[p].st = "returned" THEN pipeResult[p].result
  ELSE IF IsException(pipeResult[p].exc)
    THEN [agent |-> p, agent_name |-> TitleAgent[p],
          analysis |-> Str("Error: ", pipeResult[p].exc.msg),
          status |-> "error"]
  ELSE pipeResult[p].exc

\* C9: JudgeAgent.judge is called once per run, only after the three
\* pipelines have ended, on their entries in the order financial, market,
\* sentiment whatever the order they ended in; the research mapping pairs
\* each name with the entry of that pipeline.
C9_JudgeOnceInOrder ==
  /\ judgeCalls <= 1
  /\ judgeCalls = 1 <=> pcSwarm \in {"judge", "done", "raised"}
  /\ judgeCalls = 1 =>
       /\ \A p \in Agents : task[p] = "finished"
       /\ Len(final_results) = 3
       /\ \A k \in 1..3 : final_results[k] = EntryOf(AgentOrder[k])
  /\ judgeCall.st \in {"inflight", "replied", "raised", "cancelled"} =>
       /\ Len(judgeCall.input) = 3
       /\ \A k \in 1..3 : judgeCall.input[k] = context_part(EntryOf(AgentOrder[k]))
  /\ pcSwarm = "done" =>
       \A p \in Agents : runResult.research[p] = EntryOf(p)

\* C9 witness: a finished run whose pipelines ended out of order and whose
\* judge was answered.
C9_Witness ==
  /\ pcSwarm = "done"
  /\ outOfOrder["swarm"]
  /\ judgeCall.st = "replied"
  /\ pipeResult["financial"].st = "returned"

TimedOut(c) == c.st = "done" /\ c.how = "timeout"

\* C10: the step in which a sub-task times out changes no other sub-task:
\* every sibling and every sub-task of another pipeline stays as it was, in
\* flight if it was in flight.
C10_TimeoutIsLocal ==
  [][\A p \in Agents : \A i \in DOMAIN sub[p] :
       (sub[p][i].st = "inflight" /\ TimedOut(sub'[p][i])) =>
         \A q \in Agents : \A j \in DOMAIN sub[q] :
           (<<q, j>> # <<p, i>>) => sub'[q][j] = sub[q][j]]_vars

\* C10 witness: the first sub-task timed out and the second, which finished
\* after it, was completed by its own parsed reply.
C10_Witness ==
  \E p \in Agents :
    /\ Len(sub[p]) >= 2
    /\ TimedOut(sub[p][1])
    /\ sub[p][2].st = "done"
    /\ sub[p][2].how = "parsed"
    /\ sub[p][2].result = ParsedFor(p, Name(p, 2))
    /\ ~outOfOrder[p]

\* C11: run_subtask never retries: once a pipeline has launched its map
\* phase, runner.run has been called exactly once for each of its
\* descriptors, and stays so when a call is answered (parsably or not),
\* times out or raises.
C11_NoRetry ==
  \A p \in Agents :
    /\ Len(responderCalls[p]) = Len(sub[p])
    /\ task[p] \in {"map", "reduce"} => Len(responderCalls[p]) = N(p)
    /\ \A i \in DOMAIN responderCalls[p] : responderCalls[p][i] = 1

\* C11 witness: a pipeline whose three sub-tasks ended as a timeout, as an
\* error or an unparsable reply, and as a parsed reply, one call each.
C11_Witness ==
  \E p \in Agents : \E h \in {"raise", "unparsable"} :
    /\ task[p] = "reduce"
    /\ HowSet(p) = {"timeout", h, "parsed"}
    /\ responderCalls[p] = <<1, 1, 1>>

RecordKeys == {"summary", "metrics", "strengths", "weaknesses", "stance",
               "confidence"}

\* C12: in every pipeline, the placeholder run_subtask returns for a failed
\* sub-task has all six keys of a record: summary, confidence 0, empty
\* metrics, strengths and weaknesses, and stance NEUTRAL.
C12_PlaceholderComplete ==
  \A p \in Agents : \A i \in DOMAIN sub[p] :
    (sub[p][i].st = "done" /\ sub[p][i].how # "parsed") =>
      LET rec == sub[p][i].result IN
        /\ DOMAIN rec = RecordKeys
        /\ rec.confidence = 0
        /\ rec.metrics = <<>>
        /\ rec.strengths = <<>>
        /\ rec.weaknesses = <<>>
        /\ rec.stance = "NEUTRAL"

\* C13: analyze_stock schedules the three pipelines in one step; a
\* scheduled pipeline can always launch, whatever the others are doing; and
\* the step in which a pipeline launches its map phase puts the calls of
\* all its N descriptors in flight, none waiting for another.
C13_ConcurrentLaunch ==
  /\ [](\A p \in Agents :
          task[p] = "scheduled" => ENABLED AgentAnalyze(p, TRUE))
  /\ [][/\ (pcSwarm = "idle" /\ pcSwarm' = "research") =>
            \A p \in Agents : task'[p] = "scheduled"
        /\ \A p \in Agents :
             (task[p] = "scheduled" /\ task'[p] = "map") =>
               /\ Len(sub'[p]) = N(p)
               /\ \A i \in 1..N(p) : sub'[p][i].st = "inflight"
               /\ \A q \in Agents \ {p} : sub'[q] = sub[q]]_vars

\* C13 witness: every map-phase call of each of the three pipelines of one
\* analyze_stock run is in flight at the same time.
C13_Witness ==
  /\ pcSwarm = "research"
  /\ \A p \in Agents :
       /\ task[p] = "map"
       /\ Len(sub[p]) = N(p)
       /\ N(p) >= 1
       /\ \A i \in 1..N(p) : sub[p][i].st = "inflight"

\* C14: an analyze_stock run whose ticker fails the ticker check dispatches
\* no pipeline and no judge call, and what it returns has status "error"
\* and none of the fields research, verdict, timestamp, duration_seconds.
C14_InvalidTickerRejected ==
  (pcSwarm \in {"research", "judge", "done", "raised"}
   /\ ~ticker_accepted(stock_ticker)) =>
    /\ \A p \in Agents : task[p] = "idle"
    /\ judgeCalls = 0
    /\ pcSwarm = "done" =>
         /\ runResult.status = "error"
         /\ DOMAIN runResult \cap {"research", "verdict", "timestamp",
                                   "duration_seconds"} = {}

\* C15: when the judge's responder call is answered, the verdict is what
\* the Extractor yields for the reply: a mapping with a recommendation among
\* BUY, HOLD and SELL if the reply can be parsed, and an error verdict (never
\* status "success") if it cannot.
C15_JudgeReplyExtracted ==
  (pcSwarm = "done" /\ judgeCall.st = "replied") =>
    LET r == parse_model_json(JudgeReply) IN
      IF r.ok
        THEN /\ verdict_result.status = "success"
             /\ verdict_result.verdict = r.value
             /\ verdict_result.verdict.recommendation \in {"BUY", "HOLD", "SELL"}
        ELSE verdict_result.status = "error"

HasNoBrace(s) == \A i \in DOMAIN s : s[i] # "{"

\* C16: parse_model_json called on a text without any "{" raises ValueError
\* and returns no value.
C16_NoBraceFails ==
  (reply # NoValue /\ parsed # NoValue /\ HasNoBrace(reply.text)) =>
    /\ ~parsed.ok
    /\ parsed.exc.type = "ValueError"

\* Does a string inside the decoded value hold a brace?
RECURSIVE StringHoldsBrace(_)
StringHoldsBrace(value) ==
  CASE value.t = "string" -> \E i \in DOMAIN value.v : value.v[i] \in {"{", "}"}
    [] value.t = "number" -> FALSE
    [] OTHER -> \E k \in DOMAIN value.v : StringHoldsBrace(value.v[k])

\* C17: for a text holding a valid object some of whose string values hold
\* braces, the scan returns the object's whole text, from its opening brace
\* to the matching closing one, and parse_model_json returns the object.
C17_OuterObjectReturned ==
  (reply # NoValue /\ reply.kind = "embedded" /\ StringHoldsBrace(reply.value)) =>
    /\ first_balanced_json_object(normalize_quotes(strip_code_fences(reply.text)))
         = [ok |-> TRUE, chunk |-> reply.core]
    /\ parsed # NoValue => parsed = [ok |-> TRUE, value |-> reply.value]

\* C17 witness: parse_model_json returned the object for a text in which a
\* string value ends in "}" and more text with a brace follows the object.
C17_Witness ==
  /\ reply # NoValue
  /\ reply.kind = "embedded"
  /\ reply.text # reply.core
  /\ reply.value.t = "object"
  /\ <<"x">> \in DOMAIN reply.value.v
  /\ reply.value.v[<<"x">>] = [t |-> "string", v |-> <<"\"", "}">>]
  /\ parsed # NoValue
  /\ parsed.ok
  /\ parsed.value = reply.value

\* C18: for a text that is a fenced code block around a valid object,
\* parse_model_json returns what it returns for the text inside the fences:
\* the object.
C18_FenceIsTransparent ==
  (reply # NoValue /\ reply.kind = "fenced" /\ parsed # NoValue) =>
    /\ parsed.ok
    /\ parsed.value = reply.value
    /\ \A import_ok \in BOOLEAN, repairs \in BOOLEAN :
         parsed = parse_model_json_text(reply.core, import_ok, repairs)

\* C18 witness: parse_model_json returned the object of a block opened by a
\* fence with the tag JSON in capitals, with white space around the block.
C18_Witness ==
  /\ reply # NoValue
  /\ reply.kind = "fenced"
  /\ reply.text[1] = " "
  /\ \E i \in DOMAIN reply.text : reply.text[i] = "J"
  /\ parsed # NoValue
  /\ parsed.ok
  /\ parsed.value = reply.value

\* C19: for the text of a valid object in which smart quotes of any of the
\* eight kinds stand in place of the ASCII quotes, parse_model_json returns
\* the value of the object written with ASCII quotes.
C19_SmartQuotesAccepted ==
  (reply # NoValue /\ reply.kind = "requoted" /\ parsed # NoValue) =>
    /\ parsed = [ok |-> TRUE, value |-> reply.value]
    /\ parsed = parse_model_json_text(reply.core, FALSE, FALSE)

\* C19 witness: parse_model_json returned the object for a text mixing a
\* curly and a low double quote with a high single quote.
C19_Witness ==
  /\ reply # NoValue
  /\ reply.kind = "requoted"
  /\ \E i \in DOMAIN reply.text : reply.text[i] = "U+201C"
  /\ \E i \in DOMAIN reply.text : reply.text[i] = "U+201E"
  /\ \E i \in DOMAIN reply.text : reply.text[i] = "U+201B"
  /\ parsed # NoValue
  /\ parsed.ok
  /\ parsed.value = reply.value

\* C20: what _normalize_quotes returns is left unchanged by a second
\* _normalize_quotes and holds none of the eight smart quotes.
C20_NormalizeIdempotent ==
  (reply # NoValue /\ normalized # NoValue) =>
    /\ normalized.result = normalize_quotes(reply.text)
    /\ normalize_quotes(normalized.result) = normalized.result
    /\ \A i \in DOMAIN normalized.result :
         normalized.result[i] \notin SmartQuoteChars

\* C20 witness: _normalize_quotes returned for a text holding a low single
\* quote, a high double quote and a brace.
C20_Witness ==
  /\ reply # NoValue
  /\ normalized # NoValue
  /\ reply.kind = "text"
  /\ {"U+201A", "U+201F", "{"} \subseteq {reply.text[i] : i \in DOMAIN reply.text}
  /\ normalized.result # reply.text
  /\ Len(normalized.result) = Len(reply.text)

IsSummaryOnly(r) ==
  /\ r.value.t = "object"
  /\ DOMAIN r.value.v = {SummaryKey, ConfidenceKey}

\* C21: for a fenced reply holding an object with only the keys summary and
\* confidence, parse_model_json returns a record with all six required keys:
\* summary and confidence as given, and metrics, strengths, weaknesses and
\* stance present with their defaults.
C21_DefaultsFilled ==
  (reply # NoValue /\ reply.kind = "fenced" /\ IsSummaryOnly(reply)
   /\ parsed # NoValue) =>
    /\ parsed.ok
    /\ parsed.value.t = "object"
    /\ DOMAIN parsed.value.v = RequiredKeys
    /\ parsed.value.v[SummaryKey] = reply.value.v[SummaryKey]
    /\ parsed.value.v[ConfidenceKey] = reply.value.v[ConfidenceKey]
    /\ parsed.value.v[MetricsKey] = [t |-> "array", v |-> <<>>]
    /\ parsed.value.v[StrengthsKey] = [t |-> "array", v |-> <<>>]
    /\ parsed.value.v[WeaknessesKey] = [t |-> "array", v |-> <<>>]
    /\ parsed.value.v[StanceKey] = [t |-> "string", v |-> <<"N", "E", "U", "T", "R", "A", "L">>]

\* The first balanced object of the text, once fences are stripped and
\* quotes normalized, if json.loads accepts it.
FirstObject(text) ==
  LET found == first_balanced_json_object(normalize_quotes(strip_code_fences(text)))
  IN IF found.ok THEN json_loads(found.chunk) ELSE [ok |-> FALSE]

\* C22: for a text whose first balanced object is well-formed,
\* parse_model_json returns that object as it is, whatever its keys are (too
\* few, or other ones than the required six), and does not raise.
C22_NoSchemaValidation ==
  (reply # NoValue /\ parsed # NoValue /\ FirstObject(reply.text).ok) =>
    /\ parsed.ok
    /\ parsed.value = FirstObject(reply.text).value
    /\ reply.kind \in {"fenced", "embedded"} => parsed.value = reply.value

\* C22 witness: parse_model_json returned, among other text, an object
\* whose keys are s and n, none of them a required one.
C22_Witness ==
  /\ reply # NoValue
  /\ parsed # NoValue
  /\ reply.kind = "embedded"
  /\ reply.text # reply.core
  /\ parsed.ok
  /\ parsed.value.t = "object"
  /\ DOMAIN parsed.value.v = {<<"s">>, <<"n">>}
  /\ parsed.value = reply.value

\* C23: a run_subtask whose call was answered in time by a parsable reply
\* returns the very record parse_model_json yields for that reply, and the
\* reduce input holds that record at the descriptor's position.
C23_ParsedRecordUnchanged ==
  \A p \in Agents : \A i \in DOMAIN sub[p] :
    (sub[p][i].st = "done" /\ sub[p][i].how = "parsed") =>
      LET r == parse_model_json(MicroReply(p, Name(p, i), TRUE)) IN
        /\ r.ok
        /\ sub[p][i].result = r.value
        /\ DOMAIN sub[p][i].result = DOMAIN r.value
        /\ task[p] = "reduce" => reduceCall[p].input[i] = r.value

\* C23 witness: a reduce call whose input holds, behind the placeholder of
\* a call that raised, the parsed record of the third descriptor.
C23_Witness ==
  \E p \in Agents :
    /\ task[p] = "reduce"
    /\ N(p) >= 3
    /\ sub[p][1].how = "raise"
    /\ sub[p][3].how = "parsed"
    /\ reduceCall[p].input[3] = ParsedFor(p, Name(p, 3))
    /\ reduceCall[p].input[1].confidence = 0

Ended == pcMain \in {"exited", "interrupted"}

ReturnedSuccess ==
  pcMain = "exited" /\ pcSwarm = "done" /\ runResult.status = "success"

\* C24: the process of the command line ends with code 0 exactly when
\* analyze_stock returned a result with status "success", with 1 for every
\* other outcome it ran to (invalid ticker, an exception, a result with
\* another status), and with 130 when the user interrupted it.
C24_ExitCodes ==
  Ended =>
    /\ exitCode = 0 <=> ReturnedSuccess
    /\ pcMain = "interrupted" => exitCode = 130
    /\ (pcMain = "exited" /\ ~ReturnedSuccess) => exitCode = 1

\* s[:RawLimit] for the message
Prefix(s) == SubSeq(s, 1, Min(Len(s), RawLimit))

\* C25: the ValueError parse_model_json raises carries the first RawLimit
\* characters of the text with fences stripped and quotes normalized, and
\* no more, however long the text is.
C25_DiagnosticBounded ==
  (reply # NoValue /\ parsed # NoValue /\ ~parsed.ok) =>
    LET s == normalize_quotes(strip_code_fences(reply.text))
        raw == parsed.exc.msg[2]
    IN /\ parsed.exc.type = "ValueError"
       /\ Len(raw) <= RawLimit
       /\ raw = Prefix(s)

\* C25 witness: parse_model_json raised for a fenced text longer than the
\* limit, and the message ends with the ASCII quote the smart quote at the
\* limit was normalized to.
C25_Witness ==
  /\ reply # NoValue
  /\ parsed # NoValue
  /\ ~parsed.ok
  /\ startswith(reply.text, Fence)
  /\ Len(normalize_quotes(strip_code_fences(reply.text))) > RawLimit
  /\ Len(parsed.exc.msg[2]) = RawLimit
  /\ parsed.exc.msg[2][RawLimit] = "\""

\* C26: _strip_code_fences applied to what _strip_code_fences returned gives
\* the same text again, also for a text that begins with more than three
\* backticks or with two fences in a row.
C26_StripIdempotent ==
  (reply # NoValue /\ stripped # NoValue) =>
    /\ stripped.result = strip_code_fences(reply.text)
    /\ strip_code_fences(stripped.result) = stripped.result

\* Is s three backticks or more, at its start or at its end?
StartsWithFence(s) == startswith(s, Fence)
EndsWithFence(s) == endswith(s, Fence)

\* C27: what _strip_code_fences returns has no fence left at its start or
\* at its end: a run of three or more backticks at the start of the trimmed
\* text is removed whole, and a fence at the end is removed whether or not
\* the text starts with one.
C27_FencesRemoved ==
  (reply # NoValue /\ stripped # NoValue) =>
    /\ StartsWithFence(strip(reply.text)) =>
         (stripped.result = <<>> \/ stripped.result[1] # "U+0060")
    /\ EndsWithFence(strip(reply.text)) => ~EndsWithFence(stripped.result)

\* A call of the map phase of p ended in a cancellation, which ends analyze.
MapCancelled(p) ==
  /\ task[p] = "finished"
  /\ pipeResult[p].st = "raised"
  /\ pipeResult[p].exc = CancelledError

IsEnvelope(analysis) == DOMAIN analysis = {"error", "partials"}

C30_ResearchEntriesAreMappings ==
  (pcSwarm = "done" /\ runResult.status = "success") =>
    \A p \in Agents :
      /\ DOMAIN runResult.research[p] = {"agent", "agent_name", "analysis", "status"}
      /\ runResult.research[p].status \in {"success", "partial", "error"}

\* C31: the verdict of every value analyze_stock returns is a mapping with
\* the keys verdict and status, its status being success or error; a
\* responder failure inside JudgeAgent.judge becomes the verdict
\* "Error during judgment: ..." and an error raised by judge outside its
\* handler (no client, an entry that is no mapping) becomes the verdict
\* "Error: ...", both with status error, and analyze_stock returns.
C31_JudgeErrorsBecomeVerdicts ==
  /\ pcSwarm = "done" =>
       /\ {"verdict", "status"} \subseteq DOMAIN runResult.verdict
       /\ runResult.verdict.status \in {"success", "error"}
       /\ runResult.verdict.status = "success" <=> judgeCall.st = "replied"
  /\ judgeCall.st = "raised" =>
       /\ pcSwarm = "done"
       /\ runResult.verdict.status = "error"
       /\ runResult.verdict.verdict =
            Str("Error during judgment: ", ResponderError.msg)
  /\ judgeCall.st = "failed" =>
       /\ IsException(judgeCall.exc)
       /\ pcSwarm = "done"
       /\ runResult.verdict.status = "error"
       /\ runResult.verdict.verdict = Str("Error: ", judgeCall.exc.msg)

\* C31 witness: judge raised TypeError on an entry that is no mapping,
\* before its responder call, and analyze_stock returned an error verdict.
C31_Witness ==
  /\ pcSwarm = "done"
  /\ judgeCall.st = "failed"
  /\ judgeCall.exc = TypeError
  /\ \E k \in 1..3 : IsExceptionObject(final_results[k])
  /\ runResult.verdict.status = "error"

\* The judge's responder call was issued with an input.
JudgeHasInput == judgeCall.st \in {"inflight", "replied", "raised", "cancelled"}

\* C32: the judge's input holds exactly three sections, one per pipeline in
\* the order financial, market, sentiment, whatever the statuses; a section
\* has the plain heading only when its entry has status success, and the
\* " - ERROR" heading when the status is partial (reduce failed, envelope
\* with partials) just as when it is error (pipeline raised).
C32_JudgeSections ==
  JudgeHasInput =>
    /\ Len(judgeCall.input) = 3
    /\ \A k \in 1..3 :
         LET entry == final_results[k]
             section == judgeCall.input[k] IN
           /\ entry.agent = AgentOrder[k]
           /\ section.heading[1] = Upper(entry.agent_name)
           /\ section.body = entry.analysis
           /\ entry.status = "success" <=> section.heading[2] = ""
           /\ entry.status \in {"partial", "error"} <=>
                section.heading[2] = " - ERROR"

\* C32 witness: the judge was called on a success entry, a partial entry
\* (an envelope with partials) and the entry of a pipeline that raised.
C32_Witness ==
  /\ JudgeHasInput
  /\ \E j, k, l \in 1..3 :
       /\ final_results[j].status = "success"
       /\ judgeCall.input[j].heading[2] = ""
       /\ final_results[k].status = "partial"
       /\ IsEnvelope(final_results[k].analysis)
       /\ judgeCall.input[k].heading[2] = " - ERROR"
       /\ final_results[l].status = "error"
       /\ RaisedError(AgentOrder[l])
       /\ judgeCall.input[l].heading[2] = " - ERROR"

\* Texts put after the closing brace of the first object.
Tails == Strings({"x", "{", "}", "\""}, 2) \cup {SecondObject}

\* C33: for a text (fences stripped, quotes normalized) whose first
\* balanced object is well-formed, with prose before it, prose after it or
\* another object after it, parse_model_json returns the parse of the text
\* from the first "{" to its matching "}", and the same value whatever
\* text follows that closing brace.
C33_FirstObjectOnly ==
  (reply # NoValue /\ parsed # NoValue /\ reply.kind \in {"text", "embedded"}) =>
    LET s == normalize_quotes(strip_code_fences(reply.text))
        found == first_balanced_json_object(s) IN
      (found.ok /\ json_loads(found.chunk).ok) =>
        LET head == SubSeq(s, 1, find_brace(s, 1) - 1) \o found.chunk IN
          /\ parsed = [ok |-> TRUE, value |-> json_loads(found.chunk).value]
          /\ reply.kind = "embedded" => parsed.value = reply.value
          /\ \A tail \in Tails :
               load_first_object(head \o tail, FALSE, FALSE) = parsed

\* C33 witness: of a text holding two objects, parse_model_json returned
\* the first one, which is not the second.
C33_Witness ==
  /\ reply # NoValue
  /\ parsed # NoValue
  /\ reply.kind = "embedded"
  /\ reply.text = reply.core \o <<" ">> \o SecondObject
  /\ parsed.ok
  /\ parsed.value = reply.value
  /\ parsed.value # json_loads(SecondObject).value

\* For the text of a document, position by position: is the character the
\* opening quote of a string literal or a character inside it (TRUE), or
\* its closing quote or a character outside every literal (FALSE).
RECURSIVE string_positions(_)
string_positions(doc) ==
  CASE doc.t = "string" ->
         <<TRUE>> \o [k \in 1..Len(escaped(doc.v)) |-> TRUE] \o <<FALSE>>
    [] doc.t = "number" -> [k \in 1..Len(doc.v) |-> FALSE]
    [] doc.t = "object" ->
         <<FALSE>> \o
         flatten([k \in DOMAIN doc.members |->
                    (IF k > 1 THEN <<FALSE, FALSE>> ELSE <<>>)
                    \o string_positions(JStr(doc.members[k][1]))
                    \o <<FALSE, FALSE>>
                    \o string_positions(doc.members[k][2])])
         \o <<FALSE>>
    [] doc.t = "array" ->
         <<FALSE>> \o
         flatten([k \in DOMAIN doc.items |->
                    (IF k > 1 THEN <<FALSE, FALSE>> ELSE <<>>)
                    \o string_positions(doc.items[k])])
         \o <<FALSE>>

\* The document a reply was written from.
DocumentOf(core) == CHOOSE doc \in Documents : dumps(doc) = core

\* C34: over the text of a valid object, the scan's in_str flag is TRUE
\* exactly from the opening quote of each string literal to the character
\* before its closing quote: a quote after a backslash inside a literal
\* leaves it TRUE, the quote after an escaped backslash ends the literal,
\* and the braces inside a literal are not counted, so that the scan
\* returns the whole object.
C34_InStringFlagAgrees ==
  (reply # NoValue /\ reply.kind = "embedded" /\ parsed # NoValue) =>
    /\ in_str_after(reply.core, 1, FALSE, FALSE)
         = string_positions(DocumentOf(reply.core))
    /\ first_balanced_json_object(reply.core) = [ok |-> TRUE, chunk |-> reply.core]
    /\ parsed = [ok |-> TRUE, value |-> reply.value]

\* C34 witness: parse_model_json returned an object whose string value is
\* a quote followed by a closing brace, written \"} in the text.
C34_Witness ==
  /\ reply # NoValue
  /\ reply.kind = "embedded"
  /\ reply.value.t = "object"
  /\ <<"x">> \in DOMAIN reply.value.v
  /\ reply.value.v[<<"x">>] = [t |-> "string", v |-> <<"\"", "}">>]
  /\ reply.core = <<"{", "\"", "x", "\"", ":", " ", "\"", "\\", "\"", "}", "\"", "}">>
  /\ in_str_after(reply.core, 1, FALSE, FALSE)
       = <<FALSE, TRUE, TRUE, FALSE, FALSE, FALSE, TRUE, TRUE, TRUE, TRUE, FALSE, FALSE>>
  /\ parsed # NoValue
  /\ parsed.ok

\* The record came of the reply to call r's own prompt for descriptor
\* `name`, which named call r's ticker.
RunOwn(r, rec, name) ==
  /\ rec.run = r
  /\ rec.ticker = runs.stock_ticker[r]
  /\ rec.summary = <<"analysis", name>>

\* C35: of two analyze_stock calls running on one InvestSwarm object, under
\* every interleaving of their responder completions, each call's reduce
\* prompts name its own ticker and hold the records of its own sub-tasks,
\* its research entries and the partials in them are its own pipelines',
\* its judge is given its own entries and ticker, and its result carries
\* its own ticker and entries.
C35_RunsDoNotInterfere ==
  \A r \in Runs :
    /\ \A p \in Agents :
         LET call == runs.reduce[<<r, p>>] IN
           call.st # "none" =>
             /\ call.run = r
             /\ call.ticker = runs.stock_ticker[r]
             /\ Len(call.input) = N(p)
             /\ \A i \in 1..N(p) : RunOwn(r, call.input[i], Name(p, i))
    /\ runs.pc[r] \in {"judge", "done"} =>
         /\ \A k \in 1..3 :
              LET entry == runs.final_results[r][k]
                  p == AgentOrder[k] IN
                /\ entry.agent = p
                /\ entry.status = "success" =>
                     /\ entry.analysis.run = r
                     /\ entry.analysis.ticker = runs.stock_ticker[r]
                /\ entry.status = "partial" =>
                     /\ Len(entry.analysis.partials) = N(p)
                     /\ \A i \in 1..N(p) :
                          RunOwn(r, entry.analysis.partials[i], Name(p, i))
                /\ runs.judge[r].input[k] = context_part(entry)
         /\ runs.judge[r].ticker = runs.stock_ticker[r]
    /\ runs.pc[r] = "done" =>
         /\ runs.result[r].stock_ticker = runs.stock_ticker[r]
         /\ \A k \in 1..3 :
              runs.result[r].research[AgentOrder[k]] = runs.final_results[r][k]

\* C35 witness: the two calls, for different tickers, are under way at
\* once: the first awaits a reduce reply while the second, one of whose
\* reduce calls failed, has returned.
C35_Witness ==
  /\ runs.stock_ticker[1] = <<"T", "S", "L", "A">>
  /\ runs.stock_ticker[2] = <<"T", "S", "L", "A", "!">>
  /\ runs.pc[1] = "research"
  /\ runs.reduce[<<1, "market">>].st = "inflight"
  /\ runs.reduce[<<1, "market">>].input[1].ticker = <<"T", "S", "L", "A">>
  /\ runs.pc[2] = "done"
  /\ runs.result[2].research["market"].status = "partial"
  /\ runs.result[2].research["financial"].analysis.ticker = <<"T", "S", "L", "A", "!">>

====
